---- MODULE Spec2Model ----
(***************************************************************************)
(* A model of the dispatch core of the tracing library:                    *)
(*   - tracing-core/src/dispatcher.rs: the global default slot, the        *)
(*     thread-scoped default state, get_default and the Dispatch handle;   *)
(*   - tracing-subscriber/src/reload.rs: the reloadable layer.             *)
(* Every thread has a call stack of frames.  A frame is an operation of    *)
(* the dispatcher that is in progress on that thread; atomic accesses to   *)
(* process-wide state are separate steps, thread-local accesses are merged *)
(* with the neighbouring step.                                             *)
(***************************************************************************)
EXTENDS Integers, Sequences, FiniteSets, TLC

\* ----- bounds of the model -----
NumThreads == 2
MaxDepth == 3
MaxFrames == 3
MaxSgdErr == 2
MaxSpans == 2
MaxClones == 2
MaxRebuilds == 2
MaxUses == 2
MaxRecords == 2

Threads == 1..NumThreads
\* the thread that installs the global default, and the thread that holds
\* the Handle of the reloadable layer
Installers == {1}
Reloaders == {2}

\* ----- dispatches -----
none == "none"
Collectors == {"A", "B"}
Dispatches == Collectors \cup {none}
\* the handles passed to set_global_default and to with_default
SgdHandles == Collectors
WdHandles == {none, "B"}

UNINITIALIZED == 0
INITIALIZING == 1
INITIALIZED == 2

VARIABLES
    GLOBAL_INIT,      \* AtomicUsize: the one-shot state of the global slot
    GLOBAL_DISPATCH,  \* static mut Dispatch
    EXISTS,           \* AtomicBool
    SCOPED_COUNT,     \* AtomicUsize: live DefaultGuards
    default,          \* CURRENT_STATE.default of every thread
    can_enter,        \* CURRENT_STATE.can_enter of every thread
    stack,            \* the call stack of every thread
    unwinding,        \* the thread is unwinding from a panic
    sgdOk,            \* history: calls that returned Ok
    sgdErr,           \* history: calls that returned SetGlobalDefaultError
    contrib,          \* history: net fetch_add/fetch_sub on SCOPED_COUNT by thread
    \* --- span identifiers ---
    nextId,           \* the collector's next span id
    spanRefs,         \* the collector's reference count of every span id
    held,             \* the references to every span id owned by every thread
    clones,           \* history: clone_span calls per span id
    closeLog,         \* history: the try_close calls per span id and their results
    \* --- reload layer ---
    layerVal,         \* the wrapped layer L
    layerAlive,       \* the owning reload::Layer has not been dropped
    writer,           \* the thread holding the write lock, or 0
    readers,          \* the threads holding a read lock
    poisoned,         \* the lock is poisoned
    rpc,              \* the position of every thread in its reload operation
    rarg,             \* the layer value the closure of the running modify installed
    rtrace,           \* history: what the running operation of the thread did so far
    rlast,            \* history: the operation that returned last, and what it did
    rebuilds,         \* history: calls of callsite::rebuild_interest_cache
    \* --- callsites ---
    registry,         \* the collectors whose Dispatch is registered with the callsites
    interest,         \* the cached Interest of every callsite
    uses,             \* history: uses of every callsite since the last invalidation
    evals,            \* history: .. and how often a collector's filter was asked about it
    lastBy,           \* history: the filter that answered the last enabled call
    epoch,            \* history: invalidations of the interest cache
    sgdSeen,          \* history: epoch when set_global_default won the compare_and_swap
    \* --- ownership of the collectors ---
    strong,           \* the strong count of the Arc of every collector
    destroyed,        \* the collectors whose Arc has dropped its value
    handles,          \* the Dispatch handles to every collector held by user code
    guards,           \* the priors of the live DefaultGuards of every thread
    \* --- the log bridge ---
    logCallsites,     \* the callsites of tracing-log that exist
    lpc,              \* the position of every thread in format_trace
    lrec,             \* the level of the record format_trace is bridging, and
                      \* (history) the dispatch that answered enabled for it
    sent,             \* history: the events format_trace dispatched ..
    lastEvent,        \* history: .. and the last of them: its callsite, its record's
                      \* level and the dispatch that answered enabled for it
    skipped           \* history: the records format_trace returned Ok for without an event

dvars == <<GLOBAL_INIT, GLOBAL_DISPATCH, EXISTS, SCOPED_COUNT, default,
           can_enter, stack, unwinding, sgdOk, sgdErr, contrib>>

svars == <<nextId, spanRefs, held, clones, closeLog>>

rvars == <<layerVal, layerAlive, writer, readers, poisoned, rpc, rarg, rtrace, rlast,
          rebuilds>>

cvars == <<registry, interest, uses, evals, lastBy, epoch, sgdSeen>>

ovars == <<strong, destroyed, handles, guards>>

lvars == <<logCallsites, lpc, lrec, sent, lastEvent, skipped>>

vars == <<dvars, svars, rvars, cvars, ovars, lvars>>

\* ----- frames -----
\* kind: the operation; h: its dispatch; prior: the content of a DefaultGuard;
\* entered: the frame holds the Entered guard; pc: the position in its code;
\* d0, c0 (history): the thread's stored default and its share of
\* SCOPED_COUNT just before the call
Frame(k, h, p, e, pc, d0, c0) ==
    [kind |-> k, h |-> h, prior |-> p, entered |-> e, pc |-> pc, d0 |-> d0, c0 |-> c0]

Top(t) == stack[t][Len(stack[t])]
RECURSIVE SumOver(_, _)
SumOver(f, S) ==
    IF S = {} THEN 0
    ELSE LET x == CHOOSE y \in S : TRUE IN f[x] + SumOver(f, S \ {x})
\* frames in progress on all threads
Frames == SumOver([t \in Threads |-> Len(stack[t])], Threads)
Pop(s) == SubSeq(s, 1, Len(s) - 1)
SetTop(s, f) == [s EXCEPT ![Len(s)] = f]

\* user code is running on thread t and may call into the dispatcher
CanCall(t) ==
    /\ ~unwinding[t]
    /\ Len(stack[t]) < MaxDepth
    /\ Frames < MaxFrames
    /\ stack[t] # <<>> => Top(t).pc \in {"body", "f"}

\* user code runs on thread t
Running(t) == ~unwinding[t] /\ (stack[t] # <<>> => Top(t).pc \in {"body", "f"})

\* Dispatch::is::<NoSubscriber>
IsNoSubscriber(d) == d = none

\* ----- NoSubscriber, the collector behind Dispatch::none -----
NoSubscriber_register_callsite(c) == "never"

NoSubscriber_new_span(attrs) == 57005

\* faulty variant: a sentinel that enables everything
NoSubscriber_enabled_All(c) == TRUE

NoSubscriber_enabled(c) == FALSE

\* event, record, record_follows_from, enter and exit have empty bodies
NotifyOps == {"event", "record", "record_follows_from", "enter", "exit"}
NoSubscriber_notify(op) == "no effect"

\* what the caller gets from operation op of dispatch d on callsite or span x
Dispatch_call(d, op, x) ==
    IF IsNoSubscriber(d)
    THEN CASE op = "register_callsite" -> NoSubscriber_register_callsite(x)
           [] op = "new_span" -> NoSubscriber_new_span(x)
           [] op = "enabled" -> NoSubscriber_enabled(x)
           [] OTHER -> NoSubscriber_notify(op)
    ELSE <<"forwarded", d, op>>

\* faulty variant: a read that trusts the slot as soon as the compare_and_swap
\* was won
get_global_Early == IF GLOBAL_INIT = UNINITIALIZED THEN none ELSE GLOBAL_DISPATCH

\* has_been_set
has_been_set == EXISTS

\* get_global
get_global == IF GLOBAL_INIT # INITIALIZED THEN none ELSE GLOBAL_DISPATCH

\* the RefMut of state.default taken by get_default or by get_current is
\* alive on thread t
Borrowed(t) ==
    \E i \in DOMAIN stack[t] :
        stack[t][i].kind \in {"gd", "gc"} /\ stack[t][i].entered

DInit ==
    /\ GLOBAL_INIT = UNINITIALIZED
    /\ GLOBAL_DISPATCH = none
    /\ EXISTS = FALSE
    /\ SCOPED_COUNT = 0
    /\ default = [t \in Threads |-> none]
    /\ can_enter = [t \in Threads |-> TRUE]
    /\ stack = [t \in Threads |-> <<>>]
    /\ unwinding = [t \in Threads |-> FALSE]
    /\ sgdOk = 0
    /\ sgdErr = 0
    /\ contrib = [t \in Threads |-> 0]

\* ----- set_global_default -----
\* faulty variant: a check of GLOBAL_INIT that lets a call in while another initialises
CasWins_NotInitialized == GLOBAL_INIT # INITIALIZED

\* faulty variant: no check at all
CasWins_Always == TRUE

\* the compare_and_swap of GLOBAL_INIT
CasWins == GLOBAL_INIT = UNINITIALIZED

SetGlobalDefaultCall(t, h) ==
    /\ CanCall(t)
    /\ IF CasWins
       THEN /\ GLOBAL_INIT' = INITIALIZING
            /\ stack' = [stack EXCEPT ![t] = Append(@, Frame("sgd", h, none, FALSE, "write", none, 0))]
            /\ sgdErr' = sgdErr
       ELSE /\ sgdErr < MaxSgdErr
            /\ sgdErr' = sgdErr + 1
            /\ UNCHANGED <<GLOBAL_INIT, stack>>
    /\ UNCHANGED <<GLOBAL_DISPATCH, EXISTS, SCOPED_COUNT, default, can_enter,
                   unwinding, sgdOk, contrib>>

SetGlobalDefaultWrite(t) ==
    /\ stack[t] # <<>>
    /\ Top(t).kind = "sgd" /\ Top(t).pc = "write"
    /\ GLOBAL_DISPATCH' = Top(t).h
    /\ stack' = [stack EXCEPT ![t] = SetTop(@, [Top(t) EXCEPT !.pc = "init"])]
    /\ UNCHANGED <<GLOBAL_INIT, EXISTS, SCOPED_COUNT, default, can_enter,
                   unwinding, sgdOk, sgdErr, contrib>>

SetGlobalDefaultInit(t) ==
    /\ stack[t] # <<>>
    /\ Top(t).kind = "sgd" /\ Top(t).pc = "init"
    /\ GLOBAL_INIT' = INITIALIZED
    /\ stack' = [stack EXCEPT ![t] = SetTop(@, [Top(t) EXCEPT !.pc = "exists"])]
    /\ UNCHANGED <<GLOBAL_DISPATCH, EXISTS, SCOPED_COUNT, default, can_enter,
                   unwinding, sgdOk, sgdErr, contrib>>

\* faulty variant: a successful call that leaves EXISTS alone
SetGlobalDefaultReturn_NoExists(t) ==
    /\ stack[t] # <<>>
    /\ Top(t).kind = "sgd" /\ Top(t).pc = "exists"
    /\ sgdOk' = sgdOk + 1
    /\ stack' = [stack EXCEPT ![t] = Pop(@)]
    /\ UNCHANGED <<GLOBAL_INIT, GLOBAL_DISPATCH, EXISTS, SCOPED_COUNT, default, can_enter,
                   unwinding, sgdErr, contrib>>

\* EXISTS.store(true); Ok(())
SetGlobalDefaultReturn(t) ==
    /\ stack[t] # <<>>
    /\ Top(t).kind = "sgd" /\ Top(t).pc = "exists"
    /\ EXISTS' = TRUE
    /\ sgdOk' = sgdOk + 1
    /\ stack' = [stack EXCEPT ![t] = Pop(@)]
    /\ UNCHANGED <<GLOBAL_INIT, GLOBAL_DISPATCH, SCOPED_COUNT, default, can_enter,
                   unwinding, sgdErr, contrib>>

\* ----- get_global, one memory access at a time -----
\* the winner of the compare_and_swap has not finished its assignment to
\* GLOBAL_DISPATCH
WriteInProgress ==
    \E t \in Threads : \E i \in DOMAIN stack[t] :
        stack[t][i].kind = "sgd" /\ stack[t][i].pc = "write"

\* what a read of the static mut GLOBAL_DISPATCH can yield: a read that
\* races with the assignment is undefined and may yield anything
SlotRead == IF WriteInProgress THEN Dispatches ELSE {GLOBAL_DISPATCH}

\* faulty variant: a load that takes INITIALIZING for a filled slot
GetGlobalLoad_Early(t) ==
    /\ CanCall(t)
    /\ stack' = [stack EXCEPT ![t] =
                   Append(@, Frame("gg", none, none, FALSE,
                                   IF GLOBAL_INIT = UNINITIALIZED THEN "ret" ELSE "read",
                                   none, 0))]
    /\ UNCHANGED <<GLOBAL_INIT, GLOBAL_DISPATCH, EXISTS, SCOPED_COUNT, default,
                   can_enter, unwinding, sgdOk, sgdErr, contrib>>

\* GLOBAL_INIT.load(Acquire) != INITIALIZED: return &NONE
GetGlobalLoad(t) ==
    /\ CanCall(t)
    /\ stack' = [stack EXCEPT ![t] =
                   Append(@, Frame("gg", none, none, FALSE,
                                   IF GLOBAL_INIT # INITIALIZED THEN "ret" ELSE "read",
                                   none, 0))]
    /\ UNCHANGED <<GLOBAL_INIT, GLOBAL_DISPATCH, EXISTS, SCOPED_COUNT, default,
                   can_enter, unwinding, sgdOk, sgdErr, contrib>>

\* unsafe { &GLOBAL_DISPATCH }
GetGlobalRead(t) ==
    /\ stack[t] # <<>>
    /\ Top(t).kind = "gg" /\ Top(t).pc = "read"
    /\ \E v \in SlotRead :
          stack' = [stack EXCEPT ![t] =
                      SetTop(@, [Top(t) EXCEPT !.h = v, !.pc = "got"])]
    /\ UNCHANGED <<GLOBAL_INIT, GLOBAL_DISPATCH, EXISTS, SCOPED_COUNT, default,
                   can_enter, unwinding, sgdOk, sgdErr, contrib>>

\* the caller has got its &'static Dispatch
GetGlobalReturn(t) ==
    /\ stack[t] # <<>>
    /\ Top(t).kind = "gg" /\ Top(t).pc \in {"ret", "got"}
    /\ stack' = [stack EXCEPT ![t] = Pop(@)]
    /\ UNCHANGED <<GLOBAL_INIT, GLOBAL_DISPATCH, EXISTS, SCOPED_COUNT, default,
                   can_enter, unwinding, sgdOk, sgdErr, contrib>>

\* set_global_default and get_global on every thread
GNext ==
    \E t \in Threads :
        \/ \E h \in SgdHandles : SetGlobalDefaultCall(t, h)
        \/ SetGlobalDefaultWrite(t)
        \/ SetGlobalDefaultInit(t)
        \/ SetGlobalDefaultReturn(t)
        \/ GetGlobalLoad(t)
        \/ GetGlobalRead(t)
        \/ GetGlobalReturn(t)

\* ----- with_default / State::set_default / DefaultGuard::drop -----
\* State::set_default up to EXISTS.store; RefCell::replace panics when the
\* cell is borrowed
WithDefaultCall(t, h) ==
    /\ CanCall(t)
    /\ can_enter' = [can_enter EXCEPT ![t] = TRUE]
    /\ IF Borrowed(t)
       THEN /\ \E c \in BOOLEAN : unwinding' = [unwinding EXCEPT ![t] = c]
            /\ UNCHANGED <<default, EXISTS, stack>>
       ELSE /\ default' = [default EXCEPT ![t] = h]
            /\ EXISTS' = TRUE
            /\ stack' = [stack EXCEPT ![t] =
                           Append(@, Frame("wd", h, default[t], FALSE, "count", default[t], contrib[t]))]
            /\ UNCHANGED unwinding
    /\ UNCHANGED <<GLOBAL_INIT, GLOBAL_DISPATCH, SCOPED_COUNT, sgdOk,
                   sgdErr, contrib>>

\* SCOPED_COUNT.fetch_add(1); the guard is returned and the body starts
WithDefaultCount(t) ==
    /\ stack[t] # <<>>
    /\ Top(t).kind = "wd" /\ Top(t).pc = "count"
    /\ SCOPED_COUNT' = SCOPED_COUNT + 1
    /\ contrib' = [contrib EXCEPT ![t] = @ + 1]
    /\ stack' = [stack EXCEPT ![t] = SetTop(@, [Top(t) EXCEPT !.pc = "body"])]
    /\ UNCHANGED <<GLOBAL_INIT, GLOBAL_DISPATCH, EXISTS, default, can_enter,
                   unwinding, sgdOk, sgdErr>>

\* faulty variant: a guard that is released only when the body returns
DefaultGuardDrop_NotOnUnwind(t, f) ==
    IF unwinding[t]
    THEN UNCHANGED <<SCOPED_COUNT, contrib, default>>
    ELSE /\ SCOPED_COUNT' = SCOPED_COUNT - 1
         /\ contrib' = [contrib EXCEPT ![t] = @ - 1]
         /\ default' = [default EXCEPT ![t] = f.prior]

\* faulty variant: a guard that restores the prior and leaves the counter alone
DefaultGuardDrop_NoCount(t, f) ==
    /\ default' = [default EXCEPT ![t] = f.prior]
    /\ UNCHANGED <<SCOPED_COUNT, contrib>>

\* DefaultGuard::drop of the guard held by the frame f of thread t
DefaultGuardDrop(t, f) ==
    /\ SCOPED_COUNT' = SCOPED_COUNT - 1
    /\ contrib' = [contrib EXCEPT ![t] = @ - 1]
    /\ default' = [default EXCEPT ![t] = f.prior]

\* faulty variant: an Entered guard that leaves the flag as it is
EnteredDrop_Keep(t, f) == can_enter' = can_enter

\* Entered::drop of the guard held by the frame f of thread t
EnteredDrop(t, f) ==
    can_enter' = [can_enter EXCEPT ![t] = IF f.entered THEN TRUE ELSE @]

\* the body returns and _guard is dropped
WithDefaultReturn(t) ==
    /\ ~unwinding[t]
    /\ stack[t] # <<>>
    /\ Top(t).kind = "wd" /\ Top(t).pc = "body"
    /\ DefaultGuardDrop(t, Top(t))
    /\ stack' = [stack EXCEPT ![t] = Pop(@)]
    /\ UNCHANGED <<GLOBAL_INIT, GLOBAL_DISPATCH, EXISTS, can_enter, unwinding,
                   sgdOk, sgdErr>>

\* ----- get_default -----
\* faulty variant: no lazy upgrade of the none sentinel
Upgraded_Stored(t) == default[t]

\* the value stored in the thread's cell after the lazy upgrade
Upgraded(t) == IF IsNoSubscriber(default[t]) THEN get_global ELSE default[t]

\* faulty variant: the guard is not consulted
Reentrant_Unguarded(t) == Upgraded(t)

\* the dispatch handed to the closure by the slow path
Reentrant(t) == IF can_enter[t] THEN Upgraded(t) ELSE none

\* the dispatch get_default hands to its closure when called on thread t now
Current(t) == IF SCOPED_COUNT = 0 THEN get_global ELSE Reentrant(t)

\* SCOPED_COUNT.load: the choice between the fast and the slow path
GetDefaultLoad(t) ==
    /\ CanCall(t)
    /\ stack' = [stack EXCEPT ![t] =
                   Append(@, Frame("gd", none, none, FALSE,
                                   IF SCOPED_COUNT = 0 THEN "fast" ELSE "slow",
                                   none, 0))]
    /\ UNCHANGED <<GLOBAL_INIT, GLOBAL_DISPATCH, EXISTS, SCOPED_COUNT, default,
                   can_enter, unwinding, sgdOk, sgdErr, contrib>>

\* return f(get_global())
GetDefaultFast(t) ==
    /\ stack[t] # <<>>
    /\ Top(t).kind = "gd" /\ Top(t).pc = "fast"
    /\ stack' = [stack EXCEPT ![t] =
                   SetTop(@, [Top(t) EXCEPT !.h = get_global, !.pc = "f"])]
    /\ UNCHANGED <<GLOBAL_INIT, GLOBAL_DISPATCH, EXISTS, SCOPED_COUNT, default,
                   can_enter, unwinding, sgdOk, sgdErr, contrib>>

\* CURRENT_STATE.try_with(...)
GetDefaultSlow(t) ==
    /\ stack[t] # <<>>
    /\ Top(t).kind = "gd" /\ Top(t).pc = "slow"
    /\ IF can_enter[t]
       THEN IF Borrowed(t)
            THEN \* borrow_mut panics; the Entered guard is dropped on the way out
                 /\ \E c \in BOOLEAN : unwinding' = [unwinding EXCEPT ![t] = c]
                 /\ stack' = [stack EXCEPT ![t] = Pop(@)]
                 /\ UNCHANGED <<default, can_enter>>
            ELSE /\ can_enter' = [can_enter EXCEPT ![t] = FALSE]
                 /\ default' = [default EXCEPT ![t] = Upgraded(t)]
                 /\ stack' = [stack EXCEPT ![t] =
                       SetTop(@, [Top(t) EXCEPT !.h = Reentrant(t), !.entered = TRUE, !.pc = "f"])]
                 /\ UNCHANGED unwinding
       ELSE /\ stack' = [stack EXCEPT ![t] =
                   SetTop(@, [Top(t) EXCEPT !.h = Reentrant(t), !.pc = "f"])]
            /\ UNCHANGED <<default, can_enter, unwinding>>
    /\ UNCHANGED <<GLOBAL_INIT, GLOBAL_DISPATCH, EXISTS, SCOPED_COUNT,
                   sgdOk, sgdErr, contrib>>

\* the closure returns; the Entered guard and the RefMut are dropped
GetDefaultReturn(t) ==
    /\ ~unwinding[t]
    /\ stack[t] # <<>>
    /\ Top(t).kind = "gd" /\ Top(t).pc = "f"
    /\ EnteredDrop(t, Top(t))
    /\ stack' = [stack EXCEPT ![t] = Pop(@)]
    /\ UNCHANGED <<GLOBAL_INIT, GLOBAL_DISPATCH, EXISTS, SCOPED_COUNT, default,
                   unwinding, sgdOk, sgdErr, contrib>>

\* ----- get_current -----
\* state.enter()?, entered.current() and the call of the closure; enter
\* gives None when the guard is down, borrow_mut panics when the cell is
\* borrowed and the Entered guard is dropped on the way out
GetCurrentCall(t) ==
    /\ CanCall(t)
    /\ IF can_enter[t]
       THEN IF Borrowed(t)
            THEN /\ \E c \in BOOLEAN : unwinding' = [unwinding EXCEPT ![t] = c]
                 /\ UNCHANGED <<default, can_enter, stack>>
            ELSE /\ can_enter' = [can_enter EXCEPT ![t] = FALSE]
                 /\ default' = [default EXCEPT ![t] = Upgraded(t)]
                 /\ stack' = [stack EXCEPT ![t] =
                       Append(@, Frame("gc", Upgraded(t), none, TRUE, "f", none, 0))]
                 /\ UNCHANGED unwinding
       ELSE /\ stack' = [stack EXCEPT ![t] =
                   Append(@, Frame("gc", none, none, FALSE, "none", none, 0))]
            /\ UNCHANGED <<default, can_enter, unwinding>>
    /\ UNCHANGED <<GLOBAL_INIT, GLOBAL_DISPATCH, EXISTS, SCOPED_COUNT,
                   sgdOk, sgdErr, contrib>>

\* get_current returns Some(..) after its closure, or None; the Entered
\* guard and the RefMut are dropped
GetCurrentReturn(t) ==
    /\ ~unwinding[t]
    /\ stack[t] # <<>>
    /\ Top(t).kind = "gc" /\ Top(t).pc \in {"f", "none"}
    /\ EnteredDrop(t, Top(t))
    /\ stack' = [stack EXCEPT ![t] = Pop(@)]
    /\ UNCHANGED <<GLOBAL_INIT, GLOBAL_DISPATCH, EXISTS, SCOPED_COUNT, default,
                   unwinding, sgdOk, sgdErr, contrib>>

\* ----- panics -----
\* the unwinding leaves the innermost frame of thread t and drops its guards;
\* it goes on (c = TRUE) or is caught right there by catch_unwind
LeaveFrame(t, c) ==
    /\ IF Top(t).kind = "wd"
       THEN DefaultGuardDrop(t, Top(t)) /\ UNCHANGED can_enter
       ELSE EnteredDrop(t, Top(t)) /\ UNCHANGED <<SCOPED_COUNT, contrib, default>>
    /\ stack' = [stack EXCEPT ![t] = Pop(@)]
    /\ unwinding' = [unwinding EXCEPT ![t] = c]
    /\ UNCHANGED <<GLOBAL_INIT, GLOBAL_DISPATCH, EXISTS, sgdOk, sgdErr>>

\* user code (a with_default body or a collector method) panics
Panic(t, c) ==
    /\ ~unwinding[t]
    /\ stack[t] # <<>>
    /\ Top(t).pc \in {"body", "f"}
    /\ LeaveFrame(t, c)

\* the unwinding goes through the next frame
Unwind(t, c) ==
    /\ unwinding[t]
    /\ stack[t] # <<>>
    /\ LeaveFrame(t, c)

\* the panic is caught below the outermost frame
Catch(t) ==
    /\ unwinding[t]
    /\ stack[t] = <<>>
    /\ unwinding' = [unwinding EXCEPT ![t] = FALSE]
    /\ UNCHANGED <<GLOBAL_INIT, GLOBAL_DISPATCH, EXISTS, SCOPED_COUNT, default,
                   can_enter, stack, sgdOk, sgdErr, contrib>>

DNext ==
    \E t \in Threads :
        \/ \E h \in SgdHandles : SetGlobalDefaultCall(t, h)
        \/ SetGlobalDefaultWrite(t)
        \/ SetGlobalDefaultInit(t)
        \/ SetGlobalDefaultReturn(t)
        \/ \E h \in WdHandles : WithDefaultCall(t, h)
        \/ WithDefaultCount(t)
        \/ WithDefaultReturn(t)
        \/ GetDefaultLoad(t)
        \/ GetDefaultFast(t)
        \/ GetDefaultSlow(t)
        \/ GetDefaultReturn(t)
        \/ \E c \in BOOLEAN : Panic(t, c)
        \/ \E c \in BOOLEAN : Unwind(t, c)
        \/ Catch(t)

\* the threads whose collectors call back into the dispatcher
Enterers == Threads \ Installers

\* get_default and get_current under the scoped defaults of with_default and
\* the global default installed by one thread
ENext ==
    \/ \E t \in Installers :
        \/ SetGlobalDefaultCall(t, "A")
        \/ SetGlobalDefaultWrite(t)
        \/ SetGlobalDefaultInit(t)
        \/ SetGlobalDefaultReturn(t)
    \/ \E t \in Threads :
        \/ \E h \in WdHandles : WithDefaultCall(t, h)
        \/ WithDefaultCount(t)
        \/ WithDefaultReturn(t)
    \/ \E t \in Enterers :
        \/ GetDefaultLoad(t)
        \/ GetDefaultFast(t)
        \/ GetDefaultSlow(t)
        \/ GetDefaultReturn(t)
        \/ GetCurrentCall(t)
        \/ GetCurrentReturn(t)
        \/ \E c \in BOOLEAN : Panic(t, c)
        \/ \E c \in BOOLEAN : Unwind(t, c)
        \/ Catch(t)

\* ======================= span identifiers =======================
\* The collector behind the dispatch keeps a reference count per span id
\* (spec 4.5); Dispatch forwards new_span, clone_span and try_close to it.
SpanIds == 1..MaxSpans

SInit ==
    /\ nextId = 1
    /\ spanRefs = [id \in SpanIds |-> 0]
    /\ held = [t \in Threads |-> [id \in SpanIds |-> 0]]
    /\ clones = [id \in SpanIds |-> 0]
    /\ closeLog = [id \in SpanIds |-> <<>>]

\* Subscriber::new_span of a reference-counting collector
CollectorNewSpan(refs, id) == [refs EXCEPT ![id] = 1]

\* Subscriber::clone_span of a reference-counting collector
CollectorCloneSpan(refs, id) == [refs EXCEPT ![id] = @ + 1]

\* Subscriber::try_close of a reference-counting collector
CollectorTryClose(refs, id) ==
    [refs |-> [refs EXCEPT ![id] = @ - 1], closed |-> refs[id] - 1 = 0]

\* Dispatch::new_span
Dispatch_new_span(refs, id) == CollectorNewSpan(refs, id)

\* faulty variant: clone_span that copies the id and does not tell the collector
Dispatch_clone_span_Local(refs, id) == refs

\* Dispatch::clone_span
Dispatch_clone_span(refs, id) == CollectorCloneSpan(refs, id)

\* faulty variant: try_close that forwards like drop_span and reports nothing
Dispatch_try_close_AsDropSpan(refs, id) ==
    [refs |-> CollectorTryClose(refs, id).refs, closed |-> FALSE]

\* Dispatch::try_close
Dispatch_try_close(refs, id) == CollectorTryClose(refs, id)

\* references to id outstanding on all threads
Outstanding(h, id) == SumOver([t \in Threads |-> h[t][id]], Threads)

NewSpan(t) ==
    /\ nextId <= MaxSpans
    /\ spanRefs' = Dispatch_new_span(spanRefs, nextId)
    /\ held' = [held EXCEPT ![t][nextId] = 1]
    /\ nextId' = nextId + 1
    /\ UNCHANGED <<clones, closeLog>>

CloneSpan(t, id) ==
    /\ held[t][id] > 0
    /\ clones[id] < MaxClones
    /\ spanRefs' = Dispatch_clone_span(spanRefs, id)
    /\ held' = [held EXCEPT ![t][id] = @ + 1]
    /\ clones' = [clones EXCEPT ![id] = @ + 1]
    /\ UNCHANGED <<nextId, closeLog>>

TryClose(t, id) ==
    /\ held[t][id] > 0
    /\ LET r == Dispatch_try_close(spanRefs, id) IN
         /\ spanRefs' = r.refs
         /\ closeLog' = [closeLog EXCEPT ![id] = Append(@, [t |-> t, closed |-> r.closed])]
    /\ held' = [held EXCEPT ![t][id] = @ - 1]
    /\ UNCHANGED <<nextId, clones>>

\* a span handle moves to another thread
GiveSpan(t, u, id) ==
    /\ t # u
    /\ held[t][id] > 0
    /\ held' = [held EXCEPT ![t][id] = @ - 1, ![u][id] = @ + 1]
    /\ UNCHANGED <<nextId, spanRefs, clones, closeLog>>

SNext ==
    \E t \in Threads :
        \/ NewSpan(t)
        \/ \E id \in SpanIds : CloneSpan(t, id)
        \/ \E id \in SpanIds : TryClose(t, id)
        \/ \E u \in Threads, id \in SpanIds : GiveSpan(t, u, id)

\* ========================= reload layer =========================
\* One, Two: the filters of test::reload_handle, which decide per call;
\* Foo, Bar: filters that accept the callsite of that name, decided by the
\* metadata alone
TestFilters == {"One", "Two"}
StaticFilters == {"Foo", "Bar"}
LayerValues == TestFilters \cup StaticFilters

\* ----- callsites and their cached interest -----
Callsites == {"foo", "bar"}

CInit ==
    /\ registry = {}
    /\ interest = [c \in Callsites |-> "unset"]
    /\ uses = [c \in Callsites |-> 0]
    /\ evals = [c \in Callsites |-> 0]
    /\ lastBy = "-"
    /\ epoch = 0
    /\ sgdSeen = 0

\* every cached Interest is discarded and recomputed on the next use
InvalidateCache ==
    /\ interest' = [c \in Callsites |-> "unset"]
    /\ uses' = [c \in Callsites |-> 0]
    /\ evals' = [c \in Callsites |-> 0]
    /\ lastBy' = "-"
    /\ epoch' = epoch + 1

\* callsite::rebuild_interest_cache
rebuild_interest_cache ==
    /\ InvalidateCache
    /\ UNCHANGED <<registry, sgdSeen>>

RInit ==
    /\ layerVal = "One"
    /\ layerAlive = TRUE
    /\ writer = 0
    /\ readers = {}
    /\ poisoned = FALSE
    /\ rpc = [t \in Threads |-> "idle"]
    /\ rarg = [t \in Threads |-> "One"]
    /\ rtrace = [t \in Threads |-> <<>>]
    /\ rlast = [trace |-> <<>>, val |-> "-"]
    /\ rebuilds = 0

\* try_lock!(.., else ..): the lock result is an error when the lock is poisoned
TryLockFails == poisoned

\* the threads that hold the Arc a Handle upgraded to
HoldsArc(t) == rpc[t] \notin {"idle", "reading"}

\* faulty variant: a Handle that holds the layer strongly
Upgrades_Strong == TRUE

\* Weak::upgrade succeeds while the reload::Layer or an upgraded Arc exists
Upgrades == layerAlive \/ \E u \in Threads : HoldsArc(u)

\* the operation of thread t returns: tr is what it did
\* and v the layer value it installed or read ("-" when it did neither)
Returns(t, tr, v) ==
    /\ rtrace' = [rtrace EXCEPT ![t] = <<>>]
    /\ rarg' = [rarg EXCEPT ![t] = "One"]
    /\ rlast' = [trace |-> tr, val |-> v]

\* Handle::modify / Handle::reload: self.inner.upgrade()
ModifyUpgrade(t) ==
    /\ rpc[t] = "idle"
    /\ rebuilds < MaxRebuilds
    /\ IF Upgrades
       THEN /\ rpc' = [rpc EXCEPT ![t] = "upgraded"]
            /\ rtrace' = [rtrace EXCEPT ![t] = <<"upgrade">>]
            /\ UNCHANGED <<rarg, rlast>>
       ELSE /\ Returns(t, <<"SubscriberGone">>, "-")
            /\ UNCHANGED rpc
    /\ UNCHANGED <<layerVal, layerAlive, writer, readers, poisoned, rebuilds>>

\* faulty variant: modify takes the lock shared, as the forwarded operations do
ModifyLock_Shared(t) ==
    /\ rpc[t] = "upgraded"
    /\ writer = 0
    /\ IF TryLockFails
       THEN /\ rpc' = [rpc EXCEPT ![t] = "idle"]
            /\ Returns(t, Append(rtrace[t], "Poisoned"), "-")
            /\ UNCHANGED readers
       ELSE /\ rpc' = [rpc EXCEPT ![t] = "locked"]
            /\ rtrace' = [rtrace EXCEPT ![t] = Append(@, "write")]
            /\ readers' = readers \cup {t}
            /\ UNCHANGED <<rarg, rlast>>
    /\ UNCHANGED <<layerVal, layerAlive, writer, poisoned, rebuilds>>

\* faulty variant: a write lock that ignores the poisoning
ModifyLock_IgnorePoison(t) ==
    /\ rpc[t] = "upgraded"
    /\ writer = 0 /\ readers = {}
    /\ rpc' = [rpc EXCEPT ![t] = "locked"]
    /\ rtrace' = [rtrace EXCEPT ![t] = Append(@, "write")]
    /\ writer' = t
    /\ UNCHANGED <<layerVal, layerAlive, readers, poisoned, rarg, rlast, rebuilds>>

\* inner.write()
ModifyLock(t) ==
    /\ rpc[t] = "upgraded"
    /\ writer = 0 /\ readers = {}
    /\ IF TryLockFails
       THEN /\ rpc' = [rpc EXCEPT ![t] = "idle"]
            /\ Returns(t, Append(rtrace[t], "Poisoned"), "-")
            /\ UNCHANGED writer
       ELSE /\ rpc' = [rpc EXCEPT ![t] = "locked"]
            /\ rtrace' = [rtrace EXCEPT ![t] = Append(@, "write")]
            /\ writer' = t
            /\ UNCHANGED <<rarg, rlast>>
    /\ UNCHANGED <<layerVal, layerAlive, readers, poisoned, rebuilds>>

\* f(&mut *lock): the closure installs v (reload: *layer = new_layer)
ModifyApply(t, v) ==
    /\ rpc[t] = "locked"
    /\ layerVal' = v
    /\ rarg' = [rarg EXCEPT ![t] = v]
    /\ rpc' = [rpc EXCEPT ![t] = "applied"]
    /\ rtrace' = [rtrace EXCEPT ![t] = Append(@, IF writer = t THEN "f" ELSE "f-unlocked")]
    /\ UNCHANGED <<layerAlive, writer, readers, poisoned, rebuilds, rlast>>

\* f panics: the write guard is dropped by the unwinding and poisons the lock
ModifyPanic(t) ==
    /\ rpc[t] = "locked"
    /\ poisoned' = TRUE
    /\ writer' = 0
    /\ rpc' = [rpc EXCEPT ![t] = "idle"]
    /\ Returns(t, Append(rtrace[t], "panic"), "-")
    /\ UNCHANGED <<layerVal, layerAlive, readers, rebuilds>>

\* faulty variant: no drop(lock); the write guard lives to the end of modify
ModifyUnlock_KeepLock(t) ==
    /\ rpc[t] = "applied"
    /\ rpc' = [rpc EXCEPT ![t] = "unlocked"]
    /\ rtrace' = [rtrace EXCEPT ![t] = Append(@, "unlock")]
    /\ UNCHANGED <<layerVal, layerAlive, writer, readers, poisoned, rarg, rebuilds, rlast>>

\* faulty variant: modify that returns as soon as the lock is released
ModifyUnlock_SkipRebuild(t) ==
    /\ rpc[t] = "applied"
    /\ writer' = 0
    /\ rpc' = [rpc EXCEPT ![t] = "rebuilt"]
    /\ rtrace' = [rtrace EXCEPT ![t] = Append(@, "unlock")]
    /\ UNCHANGED <<layerVal, layerAlive, readers, poisoned, rarg, rebuilds, rlast>>

\* drop(lock)
ModifyUnlock(t) ==
    /\ rpc[t] = "applied"
    /\ writer' = 0
    /\ rpc' = [rpc EXCEPT ![t] = "unlocked"]
    /\ rtrace' = [rtrace EXCEPT ![t] = Append(@, "unlock")]
    /\ UNCHANGED <<layerVal, layerAlive, readers, poisoned, rarg, rebuilds, rlast>>

\* callsite::rebuild_interest_cache()
ModifyRebuild(t) ==
    /\ rpc[t] = "unlocked"
    /\ rebuilds' = rebuilds + 1
    /\ rpc' = [rpc EXCEPT ![t] = "rebuilt"]
    /\ rtrace' = [rtrace EXCEPT ![t] = Append(@, "rebuild")]
    /\ rebuild_interest_cache
    /\ UNCHANGED <<layerVal, layerAlive, writer, readers, poisoned, rarg, rlast>>

\* Ok(())
ModifyReturn(t) ==
    /\ rpc[t] = "rebuilt"
    /\ rpc' = [rpc EXCEPT ![t] = "idle"]
    /\ Returns(t, Append(rtrace[t], "Ok"), rarg[t])
    /\ UNCHANGED <<layerVal, layerAlive, writer, readers, poisoned, rebuilds>>

\* the operations reload::Layer forwards to the wrapped layer
ReadOps == {"register_callsite", "enabled", "new_span", "on_record",
            "on_follows_from", "on_event", "on_enter", "on_exit", "on_close",
            "on_id_change"}

\* faulty variant: a forwarded operation that answers as the wrapped layer would
ReadDefault_Inner(op) ==
    CASE op = "register_callsite" -> "always"
      [] op = "enabled" -> "true"
      [] OTHER -> "inner"

\* the else branch of try_lock! in every forwarded operation
ReadDefault(op) ==
    CASE op = "register_callsite" -> "sometimes"
      [] op = "enabled" -> "false"
      [] OTHER -> "return"

\* a forwarded operation of reload::Layer takes the read lock; on a failed
\* lock it returns the value of its else branch
ReadLock(t, op) ==
    /\ rpc[t] = "idle"
    /\ layerAlive
    /\ writer = 0
    /\ IF TryLockFails
       THEN /\ Returns(t, <<op, ReadDefault(op)>>, "-")
            /\ UNCHANGED <<readers, rpc>>
       ELSE /\ readers' = readers \cup {t}
            /\ rpc' = [rpc EXCEPT ![t] = "reading"]
            /\ rtrace' = [rtrace EXCEPT ![t] = <<"read">>]
            /\ UNCHANGED <<rarg, rlast>>
    /\ UNCHANGED <<layerVal, layerAlive, writer, poisoned, rebuilds>>

\* .. calls the wrapped layer, returns and releases the read lock
ReadUnlock(t) ==
    /\ rpc[t] = "reading"
    /\ readers' = readers \ {t}
    /\ rpc' = [rpc EXCEPT ![t] = "idle"]
    /\ Returns(t, Append(rtrace[t], "inner"), layerVal)
    /\ UNCHANGED <<layerVal, layerAlive, writer, poisoned, rebuilds>>

\* the two functions of Handle that read the layer
CurrentOps == {"with_current", "clone_current"}

\* the error of with_current; clone_current turns it into None with .ok()
CurrentErr(k, e) == IF k = "clone_current" THEN "None" ELSE e

\* Handle::with_current / Handle::clone_current: self.inner.upgrade()
WithCurrentUpgrade(t, k) ==
    /\ rpc[t] = "idle"
    /\ IF Upgrades
       THEN /\ rpc' = [rpc EXCEPT ![t] = "wc_upgraded"]
            /\ rtrace' = [rtrace EXCEPT ![t] = <<k>>]
            /\ UNCHANGED <<rarg, rlast>>
       ELSE /\ Returns(t, <<k, CurrentErr(k, "SubscriberGone")>>, "-")
            /\ UNCHANGED rpc
    /\ UNCHANGED <<layerVal, layerAlive, writer, readers, poisoned, rebuilds>>

\* inner.read()
WithCurrentLock(t) ==
    /\ rpc[t] = "wc_upgraded"
    /\ writer = 0
    /\ IF TryLockFails
       THEN /\ rpc' = [rpc EXCEPT ![t] = "idle"]
            /\ Returns(t, Append(rtrace[t], CurrentErr(rtrace[t][1], "Poisoned")), "-")
            /\ UNCHANGED readers
       ELSE /\ rpc' = [rpc EXCEPT ![t] = "wc_reading"]
            /\ rtrace' = [rtrace EXCEPT ![t] = Append(@, "read")]
            /\ readers' = readers \cup {t}
            /\ UNCHANGED <<rarg, rlast>>
    /\ UNCHANGED <<layerVal, layerAlive, writer, poisoned, rebuilds>>

\* Ok(f(&*inner)); clone_current returns Some(clone of the layer)
WithCurrentApply(t) ==
    /\ rpc[t] = "wc_reading"
    /\ readers' = readers \ {t}
    /\ rpc' = [rpc EXCEPT ![t] = "idle"]
    /\ Returns(t, rtrace[t] \o
                     <<"f", IF rtrace[t][1] = "clone_current" THEN "Some" ELSE "Ok(T)">>,
               layerVal)
    /\ UNCHANGED <<layerVal, layerAlive, writer, poisoned, rebuilds>>

\* the subscriber that owns the reload::Layer is dropped; no forwarded
\* operation borrows it
DropLayer ==
    /\ layerAlive
    /\ \A t \in Threads : rpc[t] # "reading"
    /\ layerAlive' = FALSE
    /\ UNCHANGED <<layerVal, writer, readers, poisoned, rpc, rarg, rtrace, rlast, rebuilds>>

\* Handle::modify and Handle::reload with a closure that installs a layer of V
\* and returns
Modify(t, V) ==
    \/ /\ \/ ModifyUpgrade(t)
          \/ ModifyLock(t)
          \/ \E v \in V : ModifyApply(t, v)
          \/ ModifyUnlock(t)
          \/ ModifyReturn(t)
       /\ UNCHANGED cvars
    \/ ModifyRebuild(t)

RNext ==
    \/ \E t \in Threads : Modify(t, TestFilters)
    \/ /\ UNCHANGED cvars
       /\ \/ \E t \in Threads :
               \/ ModifyPanic(t)
               \/ \E op \in ReadOps : ReadLock(t, op)
               \/ ReadUnlock(t)
               \/ \E k \in CurrentOps : WithCurrentUpgrade(t, k)
               \/ WithCurrentLock(t)
               \/ WithCurrentApply(t)
          \/ DropLayer

\* ----- the use of a callsite -----
\* the dispatches made by Dispatch::new in this model: the subscriber of
\* test::reload_handle, whose filter is the reloadable layer
RegisteredCollectors == {"A"}

\* the wrapped layer decides by the metadata alone
IsStatic(v) == v \in StaticFilters

\* the filter of the wrapped layer
Accepts(v, c) ==
    CASE v = "Foo" -> c = "foo"
      [] v = "Bar" -> c = "bar"
      [] OTHER -> TRUE

\* register_callsite of the wrapped layer
Inner_register_callsite(v, c) ==
    IF IsStatic(v) THEN (IF Accepts(v, c) THEN "always" ELSE "never") ELSE "sometimes"

\* Layer::register_callsite
Layer_register_callsite(c) ==
    IF TryLockFails THEN "sometimes" ELSE Inner_register_callsite(layerVal, c)

\* Layer::enabled
Layer_enabled(c) ==
    IF TryLockFails THEN FALSE ELSE Accepts(layerVal, c)

\* the wrapped layer's filter is evaluated by register_callsite
RegisterEvaluates == ~TryLockFails /\ IsStatic(layerVal)

\* the collectors made by Dispatch::from_static: the mock subscriber of the
\* test filter_caching_is_lexically_scoped, whose filter accepts by name
StaticCollectors == Collectors \ RegisteredCollectors

\* the filter of the mock subscriber
Mock_enabled(c) == c = "bar"

\* register_callsite of the mock subscriber
Mock_register_callsite(c) == IF Mock_enabled(c) THEN "always" ELSE "never"

\* Dispatch::register_callsite of the dispatch of collector col
Collector_register_callsite(col, c) ==
    IF col \in RegisteredCollectors THEN Layer_register_callsite(c)
    ELSE Mock_register_callsite(c)

\* the collector with the reloadable layer is registered
LayerRegistered == registry \cap RegisteredCollectors # {}

\* the filter evaluations of one registration of a callsite
RegisterEvals ==
    (IF LayerRegistered /\ RegisterEvaluates THEN 1 ELSE 0)
        + Cardinality(registry \cap StaticCollectors)

\* faulty variant: a callsite is dropped as soon as one collector rejects it
CombinedInterest_Strictest(c) ==
    LET S == {Collector_register_callsite(col, c) : col \in registry} IN
    IF "never" \in S \/ S = {} THEN "never"
    ELSE IF "sometimes" \in S THEN "sometimes"
    ELSE "always"

\* the Interest of a callsite, combined over the registered dispatches
CombinedInterest(c) ==
    LET S == {Collector_register_callsite(col, c) : col \in registry} IN
    IF "always" \in S THEN "always"
    ELSE IF "sometimes" \in S THEN "sometimes"
    ELSE "never"

\* faulty variant: a registration that leaves the cached interests alone
register_dispatch_NoRebuild(col) ==
    /\ registry' = registry \cup {col}
    /\ UNCHANGED <<interest, uses, evals, lastBy, epoch, sgdSeen>>

\* callsite::register_dispatch: the dispatch joins the registry and every
\* callsite is re-evaluated
register_dispatch(col) ==
    /\ registry' = registry \cup {col}
    /\ InvalidateCache
    /\ UNCHANGED sgdSeen

\* ----- the Arc of a scoped Dispatch -----
OInit ==
    /\ strong = [col \in Collectors |-> 0]
    /\ destroyed = {}
    /\ handles = [col \in Collectors |-> 0]
    /\ guards = [t \in Threads |-> <<>>]

\* Arc::clone of the collector of dispatch d (Dispatch::none holds no Arc)
Acquired(s, d) == IF d \in Collectors THEN [s EXCEPT ![d] = @ + 1] ELSE s

\* Arc::drop of the collector of dispatch d
Released(s, d) == IF d \in Collectors THEN [s EXCEPT ![d] = @ - 1] ELSE s

\* the value of an Arc is dropped when its strong count reaches zero
Destroys == destroyed' = destroyed \cup {col \in Collectors : strong[col] > 0 /\ strong'[col] = 0}

\* Dispatch::new: Arc::new(subscriber), then register_dispatch
Dispatch_new(col) ==
    /\ col \notin registry
    /\ strong' = [strong EXCEPT ![col] = 1]
    /\ handles' = [handles EXCEPT ![col] = 1]
    /\ register_dispatch(col)
    /\ UNCHANGED <<dvars, rvars, destroyed, guards>>

\* Dispatch::from_static: no Arc, then register_dispatch
Dispatch_from_static(col) ==
    /\ col \notin registry
    /\ register_dispatch(col)
    /\ UNCHANGED <<dvars, rvars, ovars>>

\* Dispatch::clone of a handle the user holds
Dispatch_clone(col) ==
    /\ handles[col] > 0
    /\ handles[col] < MaxClones
    /\ strong' = Acquired(strong, col)
    /\ handles' = [handles EXCEPT ![col] = @ + 1]
    /\ UNCHANGED <<dvars, destroyed, guards>>

\* the user drops a handle
Dispatch_drop(col) ==
    /\ handles[col] > 0
    /\ strong' = Released(strong, col)
    /\ handles' = [handles EXCEPT ![col] = @ - 1]
    /\ Destroys
    /\ UNCHANGED <<dvars, guards>>

\* the DefaultGuards alive on all threads
Guards == SumOver([t \in Threads |-> Len(guards[t])], Threads)

\* set_default(&dispatcher): State::set_default(dispatcher.clone()) up to
\* EXISTS.store
SetDefaultCall(t, h) ==
    /\ CanCall(t)
    /\ Frames + Guards < MaxFrames
    /\ ~Borrowed(t)
    /\ h \in Collectors => handles[h] > 0
    /\ strong' = Acquired(strong, h)
    /\ can_enter' = [can_enter EXCEPT ![t] = TRUE]
    /\ default' = [default EXCEPT ![t] = h]
    /\ EXISTS' = TRUE
    /\ stack' = [stack EXCEPT ![t] =
                   Append(@, Frame("sd", h, default[t], FALSE, "count", default[t], contrib[t]))]
    /\ UNCHANGED <<GLOBAL_INIT, GLOBAL_DISPATCH, SCOPED_COUNT, unwinding, sgdOk,
                   sgdErr, contrib, destroyed, handles, guards>>

\* SCOPED_COUNT.fetch_add(1); the DefaultGuard is returned to the caller
SetDefaultCount(t) ==
    /\ stack[t] # <<>>
    /\ Top(t).kind = "sd" /\ Top(t).pc = "count"
    /\ SCOPED_COUNT' = SCOPED_COUNT + 1
    /\ contrib' = [contrib EXCEPT ![t] = @ + 1]
    /\ guards' = [guards EXCEPT ![t] = Append(@, Top(t).prior)]
    /\ stack' = [stack EXCEPT ![t] = Pop(@)]
    /\ UNCHANGED <<GLOBAL_INIT, GLOBAL_DISPATCH, EXISTS, default, can_enter,
                   unwinding, sgdOk, sgdErr, strong, destroyed, handles>>

\* the sequence s without its i-th element
Without(s, i) == SubSeq(s, 1, i - 1) \o SubSeq(s, i + 1, Len(s))

\* the user drops the i-th live DefaultGuard of thread t, in any order: the
\* prior goes back into the cell and the replaced dispatch is dropped
GuardDrop(t, i) ==
    /\ CanCall(t)
    /\ ~Borrowed(t)
    /\ i \in DOMAIN guards[t]
    /\ DefaultGuardDrop(t, [prior |-> guards[t][i]])
    /\ guards' = [guards EXCEPT ![t] = Without(@, i)]
    /\ strong' = Released(strong, default[t])
    /\ Destroys
    /\ UNCHANGED <<GLOBAL_INIT, GLOBAL_DISPATCH, EXISTS, can_enter, stack,
                   unwinding, sgdOk, sgdErr, handles>>

\* faulty variant: a global slot that borrows the collector of the dispatch
\* that set_global_default drops on return
IntoRaw_Borrowed(s, d) == Released(s, d)

\* Arc::into_raw: the strong count the Dispatch held is never given back
IntoRaw(s, d) == s

\* set_global_default(dispatcher): the dispatcher is moved into the call; the
\* call that loses the compare_and_swap drops it on return
SetGlobalDefaultMove(t, h) ==
    /\ h \in Collectors => handles[h] > 0
    /\ SetGlobalDefaultCall(t, h)
    /\ handles' = IF h \in Collectors THEN [handles EXCEPT ![h] = @ - 1] ELSE handles
    /\ strong' = IF CasWins THEN strong ELSE Released(strong, h)
    /\ Destroys
    /\ UNCHANGED guards

\* Kind::Scoped(s) => &*Arc::into_raw(s); GLOBAL_DISPATCH = Dispatch { subscriber }
SetGlobalDefaultLeak(t) ==
    /\ SetGlobalDefaultWrite(t)
    /\ strong' = IntoRaw(strong, Top(t).h)
    /\ Destroys
    /\ UNCHANGED <<handles, guards>>

ONext ==
    \/ \E col \in Collectors :
        \/ Dispatch_new(col) /\ UNCHANGED rvars
        \/ Dispatch_clone(col) /\ UNCHANGED <<rvars, cvars>>
        \/ Dispatch_drop(col) /\ UNCHANGED <<rvars, cvars>>
    \/ \E t \in Threads :
        \/ \E h \in Dispatches : SetDefaultCall(t, h) /\ UNCHANGED <<rvars, cvars>>
        \/ SetDefaultCount(t) /\ UNCHANGED <<rvars, cvars>>
        \/ \E i \in 1..MaxFrames : GuardDrop(t, i) /\ UNCHANGED <<rvars, cvars>>

\* the collector of test::reload_handle: its handles, the guards of
\* set_default and its promotion to the global default
PNext ==
    \/ \E col \in RegisteredCollectors :
        \/ Dispatch_new(col) /\ UNCHANGED rvars
        \/ Dispatch_clone(col) /\ UNCHANGED <<rvars, cvars>>
        \/ Dispatch_drop(col) /\ UNCHANGED <<rvars, cvars>>
    \/ /\ UNCHANGED <<rvars, cvars>>
       /\ \E t \in Threads :
            \/ \E h \in RegisteredCollectors \cup {none} : SetGlobalDefaultMove(t, h)
            \/ SetGlobalDefaultLeak(t)
            \/ SetGlobalDefaultInit(t) /\ UNCHANGED ovars
            \/ SetGlobalDefaultReturn(t) /\ UNCHANGED ovars
            \/ \E h \in RegisteredCollectors \cup {none} : SetDefaultCall(t, h)
            \/ SetDefaultCount(t)
            \/ \E i \in 1..MaxFrames : GuardDrop(t, i)

\* thread t runs user code outside the dispatcher and the reload handle
Free(t) == stack[t] = <<>> /\ ~unwinding[t] /\ rpc[t] = "idle"

\* faulty variant: one cached Interest shared by all callsites
Cached_Shared(c, i) == [c2 \in Callsites |-> i]

\* the cache holds one Interest per callsite
Cached(c, i) == [interest EXCEPT ![c] = i]

\* the first use of a callsite registers it: its Interest is computed and cached
CallsiteRegister(t, c) ==
    /\ Free(t)
    /\ interest[c] = "unset"
    /\ LayerRegistered => writer = 0
    /\ interest' = Cached(c, CombinedInterest(c))
    /\ evals' = [evals EXCEPT ![c] = @ + RegisterEvals]
    /\ UNCHANGED <<registry, uses, lastBy, epoch, sgdSeen>>
    /\ UNCHANGED <<dvars, rvars>>

\* faulty variant: a use that asks the collector whatever the cached Interest is
AsksCollector_Always(c) == TRUE

\* faulty variant: a use that asks once and then trusts the answer
AsksCollector_Once(c) == interest[c] = "sometimes" /\ evals[c] = 0

\* a use asks the current collector only when the cached Interest is sometimes
AsksCollector(c) == interest[c] = "sometimes"

\* a later use of a callsite: never skips it, always goes ahead, sometimes
\* calls Dispatch::enabled on the thread's current dispatch
CallsiteUse(t, c) ==
    /\ Free(t)
    /\ interest[c] # "unset"
    /\ uses[c] < MaxUses
    /\ uses' = [uses EXCEPT ![c] = @ + 1]
    /\ IF AsksCollector(c) /\ ~IsNoSubscriber(Current(t))
       THEN /\ writer = 0
            /\ evals' = [evals EXCEPT ![c] = IF TryLockFails THEN @ ELSE @ + 1]
            /\ lastBy' = IF TryLockFails THEN "-" ELSE layerVal
       ELSE UNCHANGED <<evals, lastBy>>
    /\ UNCHANGED <<registry, interest, epoch, sgdSeen>>
    /\ UNCHANGED <<dvars, rvars>>

\* set_global_default on a registered dispatch
CacheSetGlobalDefault(t) ==
    /\ \/ /\ \E h \in registry : SetGlobalDefaultCall(t, h)
          /\ sgdSeen' = epoch
       \/ /\ \/ SetGlobalDefaultWrite(t)
             \/ SetGlobalDefaultInit(t)
             \/ SetGlobalDefaultReturn(t)
          /\ UNCHANGED sgdSeen
    /\ UNCHANGED <<registry, interest, uses, evals, lastBy, epoch>>
    /\ UNCHANGED rvars

CacheNext ==
    \/ \E col \in RegisteredCollectors : Dispatch_new(col)
    \/ /\ UNCHANGED ovars
       /\ \/ \E t \in Installers : CacheSetGlobalDefault(t)
          \/ \E t \in Reloaders : Modify(t, LayerValues) /\ UNCHANGED dvars
          \/ \E t \in Threads :
              \/ \E c \in Callsites : CallsiteRegister(t, c)
              \/ \E c \in Callsites : CallsiteUse(t, c)

\* ======================= the log bridge =======================
\* tracing-log/src/lib.rs: format_trace turns a log record into an event
\* log::Level
LogLevels == {"Error", "Warn", "Info", "Debug", "Trace"}

\* impl AsTrace for log::Level
Level_as_trace(l) ==
    CASE l = "Error" -> "ERROR"
      [] l = "Warn" -> "WARN"
      [] l = "Info" -> "INFO"
      [] l = "Debug" -> "DEBUG"
      [] l = "Trace" -> "TRACE"

\* the statics TRACE_CS .. ERROR_CS, made by log_cs!
LevelCallsites == {"TRACE_CS", "DEBUG_CS", "INFO_CS", "WARN_CS", "ERROR_CS"}

\* the level of the META of a callsite of log_cs!
CallsiteLevel(cs) ==
    CASE cs = "TRACE_CS" -> "TRACE"
      [] cs = "DEBUG_CS" -> "DEBUG"
      [] cs = "INFO_CS" -> "INFO"
      [] cs = "WARN_CS" -> "WARN"
      [] cs = "ERROR_CS" -> "ERROR"
      [] OTHER -> "-"

\* match record.level() { .. } in format_trace
RecordCallsite(l) ==
    CASE l = "Trace" -> "TRACE_CS"
      [] l = "Debug" -> "DEBUG_CS"
      [] l = "Info" -> "INFO_CS"
      [] l = "Warn" -> "WARN_CS"
      [] l = "Error" -> "ERROR_CS"

\* the collectors' filters: A is a LevelFilter at INFO, B accepts everything
Collector_enabled(d, l) ==
    IF d = "A" THEN Level_as_trace(l) \in {"ERROR", "WARN", "INFO"} ELSE TRUE

\* Dispatch::enabled on the metadata record.as_trace() of a record of level l
Dispatch_enabled(d, l) ==
    IF IsNoSubscriber(d) THEN NoSubscriber_enabled(l) ELSE Collector_enabled(d, l)

LInit ==
    /\ logCallsites = LevelCallsites
    /\ lpc = [t \in Threads |-> "idle"]
    /\ lrec = [t \in Threads |-> [level |-> "-", by |-> none]]
    /\ sent = 0
    /\ lastEvent = [cs |-> "-", level |-> "-", by |-> none]
    /\ skipped = 0

\* the thread's cell after a get_default whose closure does not call back
Resolved(t) == IF SCOPED_COUNT = 0 \/ ~can_enter[t] THEN default[t] ELSE Upgraded(t)

\* the records format_trace was called for
Records ==
    sent + skipped + Cardinality({t \in Threads : lpc[t] # "idle"})

\* faulty variant: a bridge that does not ask whether the record is enabled
FormatTraceEnabled_NoCheck(t, l) ==
    /\ lpc[t] = "idle"
    /\ Running(t)
    /\ Records < MaxRecords
    /\ default' = [default EXCEPT ![t] = Resolved(t)]
    /\ lpc' = [lpc EXCEPT ![t] = "event"]
    /\ lrec' = [lrec EXCEPT ![t] = [level |-> l, by |-> Current(t)]]
    /\ UNCHANGED <<skipped, logCallsites, sent, lastEvent>>
    /\ UNCHANGED <<GLOBAL_INIT, GLOBAL_DISPATCH, EXISTS, SCOPED_COUNT, can_enter,
                   stack, unwinding, sgdOk, sgdErr, contrib>>

\* format_trace(record) for a record of level l, up to the return of
\* dispatcher::get_default(|dispatch| dispatch.enabled(&filter_meta))
FormatTraceEnabled(t, l) ==
    /\ lpc[t] = "idle"
    /\ Running(t)
    /\ Records < MaxRecords
    /\ default' = [default EXCEPT ![t] = Resolved(t)]
    /\ IF Dispatch_enabled(Current(t), l)
       THEN /\ lpc' = [lpc EXCEPT ![t] = "event"]
            /\ lrec' = [lrec EXCEPT ![t] = [level |-> l, by |-> Current(t)]]
            /\ UNCHANGED skipped
       ELSE /\ skipped' = skipped + 1
            /\ UNCHANGED <<lpc, lrec>>
    /\ UNCHANGED <<logCallsites, sent, lastEvent>>
    /\ UNCHANGED <<GLOBAL_INIT, GLOBAL_DISPATCH, EXISTS, SCOPED_COUNT, can_enter,
                   stack, unwinding, sgdOk, sgdErr, contrib>>

\* Event::dispatch(&meta, ..) on the callsite of the level, then Ok(())
FormatTraceEvent(t) ==
    /\ lpc[t] = "event"
    /\ default' = [default EXCEPT ![t] = Resolved(t)]
    /\ sent' = sent + 1
    /\ lastEvent' = [cs |-> RecordCallsite(lrec[t].level), level |-> lrec[t].level,
                     by |-> lrec[t].by]
    /\ lpc' = [lpc EXCEPT ![t] = "idle"]
    /\ lrec' = [lrec EXCEPT ![t] = [level |-> "-", by |-> none]]
    /\ UNCHANGED <<logCallsites, skipped>>
    /\ UNCHANGED <<GLOBAL_INIT, GLOBAL_DISPATCH, EXISTS, SCOPED_COUNT, can_enter,
                   stack, unwinding, sgdOk, sgdErr, contrib>>

\* the threads that log records, inside and outside with_default
Bridgers == Threads \ Installers

\* records are bridged while the global default is installed and scoped
\* defaults come and go
LNext ==
    \/ \E t \in Bridgers :
        \/ \E l \in LogLevels : FormatTraceEnabled(t, l)
        \/ FormatTraceEvent(t)
    \/ /\ UNCHANGED lvars
       /\ \/ \E t \in Installers :
               /\ lpc[t] = "idle"
               /\ \/ \E h \in SgdHandles : SetGlobalDefaultCall(t, h)
                  \/ SetGlobalDefaultWrite(t)
                  \/ SetGlobalDefaultInit(t)
                  \/ SetGlobalDefaultReturn(t)
          \/ \E t \in Bridgers :
               /\ lpc[t] = "idle"
               /\ \/ \E h \in WdHandles : WithDefaultCall(t, h)
                  \/ WithDefaultCount(t)
                  \/ WithDefaultReturn(t)

\* dispatches are constructed, the layer is reloaded and callsites are used
RgNext ==
    \/ \E col \in RegisteredCollectors : Dispatch_new(col)
    \/ \E col \in StaticCollectors : Dispatch_from_static(col)
    \/ /\ UNCHANGED ovars
       /\ \/ \E t \in Reloaders : Modify(t, LayerValues) /\ UNCHANGED dvars
          \/ \E t \in Threads :
              \/ \E c \in Callsites : CallsiteRegister(t, c)
              \/ \E c \in Callsites : CallsiteUse(t, c)

Init == DInit /\ SInit /\ RInit /\ CInit /\ OInit /\ LInit
Next == DNext /\ UNCHANGED <<svars, rvars, cvars, ovars, lvars>>
Spec == Init /\ [][Next]_vars

\* span identifiers on one dispatch
SpanNext == SNext /\ UNCHANGED <<dvars, rvars, cvars, ovars, lvars>>
SpanSpec == Init /\ [][SpanNext]_vars

\* one reload layer and its handles
ReloadNext == RNext /\ UNCHANGED <<dvars, svars, ovars, lvars>>
ReloadSpec == Init /\ [][ReloadNext]_vars

\* the steps that carry on an operation thread t has begun on the reload
\* layer; a step that takes the lock can be made only while the lock admits it
ReloadProgress(t) ==
    /\ \/ /\ \/ ModifyLock(t)
             \/ \E v \in TestFilters : ModifyApply(t, v)
             \/ ModifyUnlock(t)
             \/ ModifyReturn(t)
             \/ ReadUnlock(t)
             \/ WithCurrentLock(t)
             \/ WithCurrentApply(t)
          /\ UNCHANGED cvars
       \/ ModifyRebuild(t)
    /\ UNCHANGED <<dvars, svars, ovars, lvars>>

\* the reload layer under a fair scheduler: a thread that can go on with its
\* operation for as long as it waits does go on; which of the waiting threads
\* the lock admits is up to the lock
ReloadLiveSpec == ReloadSpec /\ \A t \in Threads : WF_vars(ReloadProgress(t))

\* callsites, the collector with the reloadable filter and the global default
CallsiteNext == CacheNext /\ UNCHANGED <<svars, lvars>>
CallsiteSpec == Init /\ [][CallsiteNext]_vars

\* scoped dispatches, their handles and the DefaultGuards of set_default
OwnerNext == ONext /\ UNCHANGED <<svars, lvars>>
OwnerSpec == Init /\ [][OwnerNext]_vars

\* the callsite registry under several dispatches
RegistryNext == RgNext /\ UNCHANGED <<svars, lvars>>
RegistrySpec == Init /\ [][RegistryNext]_vars

\* the log bridge on top of the dispatcher
LogNext == LNext /\ UNCHANGED <<svars, rvars, cvars, ovars>>
LogSpec == Init /\ [][LogNext]_vars

\* re-entrancy: get_default and get_current under scoped defaults and panics
EnterNext == ENext /\ UNCHANGED <<svars, rvars, cvars, ovars, lvars>>
EnterSpec == Init /\ [][EnterNext]_vars

\* the global slot under concurrent installs and reads
SlotNext == GNext /\ UNCHANGED <<svars, rvars, cvars, ovars, lvars>>
SlotSpec == Init /\ [][SlotNext]_vars

\* one scoped dispatch that may become the global default
PromoteNext == PNext /\ UNCHANGED <<svars, lvars>>
PromoteSpec == Init /\ [][PromoteNext]_vars

\* ----- the stacks -----
IsWd(f) == f.kind = "wd"
IsGd(f) == f.kind = "gd"
IsSgd(f) == f.kind = "sgd"
HasScoped(t) == \E i \in DOMAIN stack[t] : IsWd(stack[t][i])
InCallback(t) == \E i \in DOMAIN stack[t] : IsGd(stack[t][i])
\* set_global_default calls that won the compare-and-set and have not returned
Winners == Cardinality({t \in Threads : \E i \in DOMAIN stack[t] : IsSgd(stack[t][i])})
\* the body of with_default runs on thread t
InBody(t) == Running(t) /\ stack[t] # <<>> /\ IsWd(Top(t))
\* the innermost with_default frame of thread t
InnerWd(t) ==
    LET i == CHOOSE k \in DOMAIN stack[t] :
                 /\ IsWd(stack[t][k])
                 /\ \A m \in DOMAIN stack[t] : m > k => ~IsWd(stack[t][m])
    IN stack[t][i]
\* thread t leaves a with_default frame in this step
LeavesWd(t) ==
    /\ stack[t] # <<>>
    /\ IsWd(Top(t)) /\ Top(t).pc = "body"
    /\ stack'[t] = Pop(stack[t])

\* ----- C1 -----
\* C1: of all set_global_default calls exactly one returns Ok, the one whose
\* compare-and-set moved GLOBAL_INIT from UNINITIALIZED; every other call
\* returns SetGlobalDefaultError.
C1_ExactlyOneOk ==
    /\ sgdOk + Winners <= 1
    /\ sgdErr > 0 => sgdOk + Winners = 1
    /\ sgdOk + Winners = 1 <=> GLOBAL_INIT # UNINITIALIZED
    /\ sgdOk = 1 => GLOBAL_INIT = INITIALIZED

C1_Witness == sgdOk = 1 /\ sgdErr = 2 /\ Winners = 0

\* ----- C2 -----
\* C2: once a set_global_default call has succeeded the installed collector
\* stays the global default: a failing call leaves GLOBAL_DISPATCH,
\* GLOBAL_INIT and EXISTS unchanged and get_global keeps returning the
\* first-installed handle.
C2_GlobalStays ==
    [][ /\ GLOBAL_INIT = INITIALIZED =>
             /\ GLOBAL_INIT' = INITIALIZED
             /\ GLOBAL_DISPATCH' = GLOBAL_DISPATCH
             /\ get_global' = GLOBAL_DISPATCH
        /\ sgdOk = 1 => GLOBAL_INIT = INITIALIZED /\ get_global = GLOBAL_DISPATCH
        /\ sgdErr' # sgdErr => UNCHANGED <<GLOBAL_DISPATCH, GLOBAL_INIT, EXISTS>>
      ]_vars

C2_Witness ==
    /\ sgdOk = 1 /\ sgdErr = 1
    /\ GLOBAL_INIT = INITIALIZED /\ GLOBAL_DISPATCH = "A" /\ EXISTS

\* ----- C3 -----
\* C3: with_default(handle, body) makes handle the dispatch resolved by
\* get_default on the calling thread during body; after body the calling
\* thread resolves what it resolved before the call (same global slot); the
\* dispatch resolved by the other threads is not changed by the call.
C3_InsideBody == \A t \in Threads : InBody(t) => Current(t) = Top(t).h

C3_ScopedToBody ==
    /\ []C3_InsideBody
    /\ [][\A t \in Threads : LeavesWd(t) =>
             /\ default'[t] = Top(t).d0
             /\ \A u \in Threads \ {t} : Running(u) => Current(u)' = Current(u)]_vars

\* ----- C4 -----
\* C4: when the body panics, the unwinding that leaves with_default restores
\* the thread's stored default and takes the guard out of SCOPED_COUNT: the
\* stored default and the thread's share of SCOPED_COUNT are those of just
\* before the call, and SCOPED_COUNT is the sum of the shares.
C4_PanicRestores ==
    /\ [](SCOPED_COUNT = SumOver(contrib, Threads))
    /\ [][\A t \in Threads :
             (LeavesWd(t) /\ (unwinding[t] \/ unwinding'[t])) =>
                 /\ default'[t] = Top(t).d0
                 /\ contrib'[t] = Top(t).c0
                 /\ SCOPED_COUNT' = SCOPED_COUNT - 1]_vars

\* the unwinding is about to leave a with_default whose handle replaced a
\* different default
C4_Witness ==
    \E t \in Threads :
        /\ unwinding[t] /\ stack[t] # <<>>
        /\ IsWd(Top(t)) /\ Top(t).pc = "body"
        /\ Top(t).d0 # default[t] /\ contrib[t] = Top(t).c0 + 1

\* ----- C5 -----
\* C5: with A installed globally, a thread without a scoped default resolves
\* A (on the fast and on the slow path), and a thread inside
\* with_default(B, ...) resolves B; after the block it resolves A again.
C5_Scenario ==
    (GLOBAL_INIT = INITIALIZED /\ GLOBAL_DISPATCH = "A") =>
        \A t \in Threads :
            (Running(t) /\ ~InCallback(t)) =>
                /\ ~HasScoped(t) => Current(t) = "A"
                /\ (HasScoped(t) /\ InnerWd(t).h = "B") => Current(t) = "B"

C5_Witness ==
    /\ GLOBAL_INIT = INITIALIZED /\ GLOBAL_DISPATCH = "A"
    /\ InBody(1) /\ Top(1).h = "B" /\ Current(1) = "B"
    /\ stack[2] = <<>> /\ SCOPED_COUNT = 1 /\ Current(2) = "A"

\* ----- C6 -----
\* the frame i of thread t is a method of the collector that with_default
\* installed on that thread, reached through get_default
ScopedCallback(t, i) ==
    /\ IsGd(stack[t][i]) /\ stack[t][i].pc = "f"
    /\ stack[t][i].h # none
    /\ \E k \in 1..(i - 1) :
          /\ IsWd(stack[t][k]) /\ stack[t][k].h = stack[t][i].h
          /\ \A m \in (k + 1)..(i - 1) : ~IsWd(stack[t][m])

\* C6: while a collector installed by with_default handles a dispatch reached
\* through get_default, every get_default of the same thread hands the none
\* sentinel to its closure: the collector is not invoked a second time.
C6_NoReentry ==
    \A t \in Threads : \A i, j \in DOMAIN stack[t] :
        (i < j /\ ScopedCallback(t, i) /\ IsGd(stack[t][j]) /\ stack[t][j].pc = "f")
            => stack[t][j].h = none /\ ~stack[t][j].entered

C6_Witness ==
    \E t \in Threads :
        /\ Len(stack[t]) = 3
        /\ ScopedCallback(t, 2) /\ stack[t][2].entered
        /\ IsGd(stack[t][3]) /\ stack[t][3].pc = "f" /\ stack[t][3].h = none

\* ----- C7 -----
\* C7: with a collector installed only as the global default and no scoped
\* guard live (SCOPED_COUNT = 0), a get_default made from inside that
\* collector's own method receives the none sentinel.
C7_GlobalNoReentry ==
    \A t \in Threads : \A i, j \in DOMAIN stack[t] :
        (/\ i < j
         /\ SCOPED_COUNT = 0 /\ \A u \in Threads : ~HasScoped(u)
         /\ IsGd(stack[t][i]) /\ stack[t][i].pc = "f" /\ stack[t][i].h # none
         /\ IsGd(stack[t][j]) /\ stack[t][j].pc = "f")
            => stack[t][j].h = none

\* ----- C8 -----
\* C8: for a span id minted by new_span and cloned N times on the same
\* dispatch, the first N try_close calls return false and the (N+1)-th
\* returns true.
C8_RefcountLaw ==
    \A id \in SpanIds :
        /\ Len(closeLog[id]) <= clones[id] + 1
        /\ \A k \in DOMAIN closeLog[id] :
              closeLog[id][k].closed <=> (k = clones[id] + 1)
        /\ (id < nextId /\ Outstanding(held, id) = 0) => Len(closeLog[id]) = clones[id] + 1

C8_Witness ==
    \E id \in SpanIds :
        /\ clones[id] = 2
        /\ Len(closeLog[id]) = 3
        /\ ~closeLog[id][1].closed /\ ~closeLog[id][2].closed /\ closeLog[id][3].closed

\* ----- C9 -----
\* C9: when several threads own references to one span id and interleave
\* clone_span and try_close, a try_close returns true exactly when it releases
\* the last outstanding reference, and at most one try_close returns true.
C9_ExactlyOnceClose ==
    /\ [](\A id \in SpanIds :
            /\ Cardinality({k \in DOMAIN closeLog[id] : closeLog[id][k].closed}) <= 1
            /\ (id < nextId /\ Outstanding(held, id) = 0) =>
                   Cardinality({k \in DOMAIN closeLog[id] : closeLog[id][k].closed}) = 1)
    /\ [][\A id \in SpanIds :
            closeLog'[id] # closeLog[id] =>
                (closeLog'[id][Len(closeLog'[id])].closed <=> Outstanding(held', id) = 0)]_vars

C9_Witness ==
    \E id \in SpanIds :
        /\ Len(closeLog[id]) = 3
        /\ closeLog[id][1].t # closeLog[id][2].t
        /\ closeLog[id][1].t = closeLog[id][3].t
        /\ closeLog[id][3].closed
        /\ Outstanding(held, id) = 0

\* ----- C10 -----
\* C10: a modify (or reload) call that returns Ok has applied its closure
\* once under the write lock, has released the lock and has then called
\* rebuild_interest_cache once before returning.
C10_OkMeansRebuilt ==
    (rlast.trace # <<>> /\ rlast.trace[Len(rlast.trace)] = "Ok") =>
        /\ rlast.trace = <<"upgrade", "write", "f", "unlock", "rebuild", "Ok">>
        /\ rebuilds >= 1

C10_Witness ==
    /\ \A t \in Threads : rpc[t] = "idle"
    /\ rlast = [trace |-> <<"upgrade", "write", "f", "unlock", "rebuild", "Ok">>, val |-> "Two"]
    /\ layerVal = "Two" /\ rebuilds = 1

\* ----- C16 -----
\* the reload::Layer is dropped and no modify or with_current is in progress
Gone == ~layerAlive /\ \A t \in Threads : ~HoldsArc(t)

\* C16: once the owning reload::Layer is dropped and no modify or
\* with_current is in progress, every modify, reload and with_current returns
\* SubscriberGone and clone_current returns None: no closure runs, the layer
\* keeps its value and the interest cache is not rebuilt.
C16_GoneIsGone ==
    [][Gone =>
        /\ Gone'
        /\ rpc' = rpc /\ layerVal' = layerVal /\ rebuilds' = rebuilds
        /\ rlast' # rlast =>
              /\ rlast'.val = "-"
              /\ rlast'.trace \in {<<"SubscriberGone">>,
                                   <<"with_current", "SubscriberGone">>,
                                   <<"clone_current", "None">>}]_vars

C16_Witness ==
    /\ Gone
    /\ layerVal = "Two"
    /\ rebuilds = 1
    /\ rlast.trace = <<"clone_current", "None">>

\* ----- C17 -----
\* C17: a closure of modify that panics under the write lock poisons the
\* lock; the lock stays poisoned, and every modify or reload that reaches the
\* lock afterwards returns Poisoned as a value: its closure does not run, the
\* layer keeps its value, it does not rebuild the interest cache and it does
\* not panic.
C17_PoisonedIsError ==
    /\ [][(rlast' # rlast /\ rlast'.trace = <<"upgrade", "write", "panic">>) => poisoned']_vars
    /\ [][poisoned =>
            /\ poisoned'
            /\ layerVal' = layerVal
            /\ \A t \in Threads :
                  (rpc[t] = "upgraded" /\ rpc'[t] # "upgraded") =>
                      /\ rpc'[t] = "idle"
                      /\ rlast' = [trace |-> <<"upgrade", "Poisoned">>, val |-> "-"]
                      /\ rebuilds' = rebuilds]_vars

C17_Witness ==
    /\ poisoned
    /\ layerVal = "Two"
    /\ rlast.trace = <<"upgrade", "Poisoned">>

\* ----- C18 -----
\* C18: while the lock is poisoned, a forwarded operation of the reload
\* layer returns its default without calling the wrapped layer:
\* register_callsite returns Interest::sometimes, enabled returns false, and
\* new_span, on_record, on_follows_from, on_event, on_enter, on_exit,
\* on_close and on_id_change just return.
C18_PoisonedReadDefaults ==
    [][poisoned =>
        /\ \A t \in Threads : rpc'[t] # "reading"
        /\ (rlast' # rlast /\ rlast'.trace[1] \in ReadOps) =>
              /\ rlast'.val = "-"
              /\ rlast'.trace =
                    <<rlast'.trace[1],
                      CASE rlast'.trace[1] = "register_callsite" -> "sometimes"
                        [] rlast'.trace[1] = "enabled" -> "false"
                        [] OTHER -> "return">>]_vars

C18_Witness ==
    /\ poisoned
    /\ rlast.trace = <<"register_callsite", "sometimes">>

\* ----- C11 -----
\* the reload that returned last installed v, and v is still the wrapped layer
ReloadedTo(v) ==
    /\ rlast.trace # <<>>
    /\ rlast.trace[Len(rlast.trace)] = "Ok"
    /\ rlast.val = v
    /\ layerVal = v

\* the Interest the registered collector has in callsite c under layer v
InterestUnder(v, c) == IF registry = {} THEN "never" ELSE Inner_register_callsite(v, c)

\* C11: after Handle::reload(new) has returned Ok, every evaluation of a
\* callsite that starts afterwards is decided by the new layer: no Interest
\* cached under the replaced layer survives (a callsite the old filter
\* accepted and the new one rejects is never, and the other way round), and
\* an enabled call is answered by the new layer.
C11_ReloadTakesEffect ==
    /\ [](\A v \in LayerValues : ReloadedTo(v) =>
            \A c \in Callsites : interest[c] \in {"unset", InterestUnder(v, c)})
    /\ [][\A v \in LayerValues : ReloadedTo(v) =>
            \A c \in Callsites : evals'[c] > evals[c] => lastBy' \in {lastBy, v}]_vars

C11_Witness ==
    /\ ReloadedTo("Bar")
    /\ rebuilds = 2
    /\ GLOBAL_INIT = INITIALIZED
    /\ interest["foo"] = "never" /\ uses["foo"] >= 1
    /\ interest["bar"] = "always" /\ uses["bar"] >= 1

Quiescent == \A t \in Threads : rpc[t] \notin {"applied", "unlocked"}

C13_NeverMeansNoCall ==
    [][\A c \in Callsites : interest[c] = "never" =>
          /\ evals'[c] <= evals[c]
          /\ interest'[c] = "never" \/ epoch' > epoch]_vars

C13_Witness ==
    /\ GLOBAL_INIT = INITIALIZED
    /\ layerVal = "Foo"
    /\ interest["bar"] = "never" /\ uses["bar"] = MaxUses /\ evals["bar"] = 1

\* ----- C14 -----
\* a step that registers or uses callsite c and invalidates nothing
Touches(c) == (uses'[c] # uses[c] \/ interest'[c] # interest[c]) /\ epoch' = epoch

\* C14: a filter that decides by the metadata alone is evaluated once per
\* callsite, at its first use after the last invalidation; later uses take the
\* cached decision; registering or using one callsite neither evaluates the
\* filter for another callsite nor changes its cached Interest.
C14_OncePerCallsite ==
    /\ [](\A c \in Callsites :
            /\ interest[c] = "unset" => (evals[c] = 0 /\ uses[c] = 0)
            /\ (registry # {} /\ interest[c] \in {"never", "always"}) => evals[c] = 1)
    /\ [][\A c \in Callsites : Touches(c) =>
            \A c2 \in Callsites \ {c} :
                interest'[c2] = interest[c2] /\ evals'[c2] = evals[c2]]_vars

C14_Witness ==
    /\ GLOBAL_INIT = INITIALIZED
    /\ layerVal = "Foo"
    /\ interest["foo"] = "always" /\ uses["foo"] = MaxUses /\ evals["foo"] = 1
    /\ interest["bar"] = "never" /\ uses["bar"] >= 1 /\ evals["bar"] = 1

\* ----- C15 -----
\* C15: while the Interest of a callsite is sometimes, every use of it on a
\* thread whose current dispatch is the collector issues one enabled call,
\* answered by the filter installed at that moment; the answer is not cached.
C15_SometimesAsksEveryTime ==
    [][\A c \in Callsites :
          (/\ uses'[c] = uses[c] + 1
           /\ interest[c] = "sometimes"
           /\ \A t \in Threads : ~IsNoSubscriber(Current(t))
           /\ ~TryLockFails) =>
              /\ evals'[c] = evals[c] + 1
              /\ lastBy' = layerVal
              /\ interest'[c] = "sometimes"]_vars

C15_Witness ==
    /\ GLOBAL_INIT = INITIALIZED
    /\ \E t \in Threads : rpc[t] = "unlocked"
    /\ layerVal = "Two" /\ lastBy = "Two"
    /\ interest["foo"] = "sometimes" /\ uses["foo"] = 2 /\ evals["foo"] = 2

\* ----- C19 -----
\* no collector was ever installed, globally or on a thread
NeverInstalled == GLOBAL_INIT = UNINITIALIZED /\ ~EXISTS

\* C19: while no collector has ever been installed, get_default (and so
\* Dispatch::default) resolves to the none dispatch on every thread, and on it
\* enabled returns false, register_callsite returns Interest::never, new_span
\* returns the id 0xDEAD, and event, record, record_follows_from, enter and
\* exit have no effect.
C19_NoneByDefault ==
    NeverInstalled =>
        \A t \in Threads :
            /\ IsNoSubscriber(Current(t))
            /\ \A i \in DOMAIN stack[t] :
                  (IsGd(stack[t][i]) /\ stack[t][i].pc = "f") =>
                      LET d == stack[t][i].h IN
                      /\ d = none
                      /\ \A c \in Callsites :
                            /\ Dispatch_call(d, "enabled", c) = FALSE
                            /\ Dispatch_call(d, "register_callsite", c) = "never"
                            /\ Dispatch_call(d, "new_span", c) = 57005
                      /\ \A op \in NotifyOps : Dispatch_call(d, op, 1) = "no effect"

C19_Witness ==
    /\ NeverInstalled
    /\ \E t \in Threads :
          /\ Len(stack[t]) = 2
          /\ \A i \in 1..2 : IsGd(stack[t][i]) /\ stack[t][i].pc = "f" /\ stack[t][i].h = none

\* ----- C20 -----
\* a Dispatch that refers to the collector exists: a handle of the user, the
\* content of a thread's cell, the prior of a DefaultGuard or of a
\* set_default in progress, the dispatch moved into a set_global_default in
\* progress, or the global default
Referred(col) ==
    \/ handles[col] > 0
    \/ GLOBAL_DISPATCH = col
    \/ \E t \in Threads :
        \/ default[t] = col
        \/ \E i \in DOMAIN guards[t] : guards[t][i] = col
        \/ \E i \in DOMAIN stack[t] : stack[t][i].prior = col
        \/ \E i \in DOMAIN stack[t] : IsSgd(stack[t][i]) /\ stack[t][i].h = col

\* C20: the collector wrapped by Dispatch::new is destroyed exactly when the
\* last Dispatch that refers to it is dropped: never while a clone exists, and
\* (unless it became the global default) always once the user has dropped the
\* handles and has released every guard.
C20_DroppedWithLastHandle ==
    \A col \in Collectors :
        /\ col \in destroyed => ~Referred(col)
        /\ (/\ col \in registry
            /\ GLOBAL_DISPATCH # col
            /\ handles[col] = 0
            /\ \A t \in Threads : guards[t] = <<>> /\ stack[t] = <<>>) => col \in destroyed

\* ----- C21 -----
\* C21: once set_global_default has installed a scoped Dispatch, the strong
\* count of its collector stays at least one and the collector is never
\* destroyed, whatever handles and guards are dropped afterwards: the dispatch
\* get_global returns never dangles.
C21_PromotedNeverDestroyed ==
    (GLOBAL_INIT = INITIALIZED /\ get_global \in Collectors) =>
        /\ strong[get_global] >= 1
        /\ get_global \notin destroyed

C21_Witness ==
    /\ sgdOk = 1 /\ sgdErr = 1
    /\ get_global = "A"
    /\ handles["A"] = 0
    /\ \A t \in Threads : guards[t] = <<>> /\ stack[t] = <<>> /\ default[t] = none
    /\ strong["A"] = 1 /\ "A" \notin destroyed

\* ----- C22 -----
\* the set_global_default call of thread t stores INITIALIZED in this step
StoresInitialized(t) ==
    /\ stack[t] # <<>>
    /\ IsSgd(Top(t)) /\ Top(t).pc = "init"
    /\ stack'[t] = SetTop(stack[t], [Top(t) EXCEPT !.pc = "exists"])

\* C22: get_global returns the none dispatch while GLOBAL_INIT is UNINITIALIZED
\* or INITIALIZING; from the step that stores INITIALIZED on it returns the
\* dispatch of the call that made that step, and a call returns Ok only for
\* that dispatch; GLOBAL_INIT only moves UNINITIALIZED -> INITIALIZING ->
\* INITIALIZED, one step at a time and never back.
C22_GlobalReadFollowsInit ==
    /\ [](GLOBAL_INIT # INITIALIZED => get_global = none)
    /\ [][/\ GLOBAL_INIT' \in {GLOBAL_INIT, GLOBAL_INIT + 1}
          /\ GLOBAL_INIT' \in {UNINITIALIZED, INITIALIZING, INITIALIZED}
          /\ GLOBAL_INIT' # GLOBAL_INIT /\ GLOBAL_INIT' = INITIALIZED =>
                \E t \in Threads : StoresInitialized(t) /\ get_global' = Top(t).h
          /\ GLOBAL_INIT = INITIALIZED => get_global' = get_global
          /\ sgdOk' # sgdOk =>
                \E t \in Threads :
                    /\ stack[t] # <<>> /\ IsSgd(Top(t))
                    /\ stack'[t] = Pop(stack[t])
                    /\ get_global' = Top(t).h
      ]_vars

C22_Witness ==
    /\ GLOBAL_INIT = INITIALIZED
    /\ sgdOk = 1 /\ sgdErr = 1
    /\ get_global = "B"
    /\ \E t \in Threads :
          stack[t] # <<>> /\ IsGd(Top(t)) /\ Top(t).pc = "f" /\ Top(t).h = "B"

\* ----- C23 -----
\* set_default returns on thread t in this step
SetDefaultReturns(t) ==
    /\ stack[t] # <<>>
    /\ Top(t).kind = "sd"
    /\ stack'[t] = Pop(stack[t])

\* in this step thread t has dropped a guard that is not its newest one
DropsOlderGuard(t) ==
    /\ guards[t] # <<>>
    /\ guards'[t] # Without(guards[t], Len(guards[t]))
    /\ \E i \in DOMAIN guards[t] : guards'[t] = Without(guards[t], i)

\* the newest guard of thread t stays live and newest in this step
NewestGuardStays(t) ==
    /\ guards[t] # <<>>
    /\ stack[t] = <<>> /\ stack'[t] = <<>>
    /\ guards'[t] = guards[t] \/ DropsOlderGuard(t)

\* C23: when set_default(handle) returns, get_default on that thread resolves
\* handle, and it goes on resolving it as long as the guard is live and no
\* later set_default on the thread shadows it.
C23_GuardKeepsHandle ==
    [][\A t \in Threads :
          /\ SetDefaultReturns(t) => Current(t)' = Top(t).h
          /\ NewestGuardStays(t) => Current(t)' = Current(t)
      ]_vars

\* ----- C24 -----
\* thread t calls State::set_default in this step and the cell is replaced
SetDefaultEnters(t) ==
    /\ Len(stack'[t]) = Len(stack[t]) + 1
    /\ stack'[t][Len(stack'[t])].kind \in {"wd", "sd"}

\* C24: has_been_set is false until a set_global_default call succeeds or a
\* set_default is called; it is true once a set_global_default call has
\* returned Ok and once a set_default has returned; it never goes back to
\* false, also when every guard is dropped; a set_global_default call that
\* fails does not change it.
C24_HasBeenSet ==
    /\ [](sgdOk >= 1 => has_been_set)
    /\ [](\A t \in Threads : \A i \in DOMAIN stack[t] :
              (IsWd(stack[t][i]) /\ stack[t][i].pc = "body") => has_been_set)
    /\ [][/\ has_been_set => has_been_set'
          /\ (~has_been_set /\ has_been_set') =>
                \/ sgdOk' = sgdOk + 1
                \/ \E t \in Threads : SetDefaultEnters(t)
          /\ sgdErr' # sgdErr => has_been_set' = has_been_set
      ]_vars

C24_Witness ==
    /\ has_been_set
    /\ GLOBAL_INIT = UNINITIALIZED
    /\ SCOPED_COUNT = 0
    /\ \A t \in Threads : stack[t] = <<>> /\ contrib[t] = 0

\* ----- C25 -----
\* thread t is inside the lock of the reload layer
InsideLock(t) == rpc[t] \in {"locked", "applied", "reading", "wc_reading"}

\* thread t holds the lock for a mutation: from inner.write() to drop(lock)
Mutating(t) == rpc[t] \in {"locked", "applied"}

\* C25: while modify (or reload) holds the lock for its closure, no forwarded
\* operation, no with_current and no other modify is inside the lock; the
\* layer changes only in a step of the thread that holds the write lock, with
\* no reader inside.
C25_WriterExcludes ==
    /\ [](\A t \in Threads :
            Mutating(t) =>
                /\ writer = t /\ readers = {}
                /\ \A u \in Threads \ {t} : ~InsideLock(u))
    /\ [](\A t \in Threads : rpc[t] \in {"reading", "wc_reading"} => writer = 0 /\ t \in readers)
    /\ [][layerVal' # layerVal =>
            \E t \in Threads : rpc[t] = "locked" /\ writer = t /\ readers = {}]_vars

C25_Witness ==
    /\ rpc[1] = "applied" /\ writer = 1 /\ layerVal = "Two"
    /\ rpc[2] = "upgraded"
    /\ readers = {}
    /\ rlast.trace = <<"read", "inner">> /\ rlast.val = "One"

\* ----- C26 -----
\* thread t holds a lock of the reload layer
HoldsLock(t) == writer = t \/ t \in readers

\* the modify of thread t calls rebuild_interest_cache in this step
StartsRebuild(t) == rpc[t] = "unlocked" /\ rpc'[t] = "rebuilt"

\* C26: modify calls rebuild_interest_cache only after it has released the
\* write lock: when the rebuild starts, and until modify returns, the modifying
\* thread holds no lock of the layer, so a read lock taken by the rebuild on
\* that thread (Layer::register_callsite) is not blocked by the thread itself.
C26_UnlockBeforeRebuild ==
    /\ [](\A t \in Threads : rpc[t] \in {"unlocked", "rebuilt"} => ~HoldsLock(t))
    /\ [][rebuilds' # rebuilds =>
            \E t \in Threads :
                /\ StartsRebuild(t)
                /\ ~HoldsLock(t)
                /\ rtrace[t] = <<"upgrade", "write", "f", "unlock">>]_vars

C26_Witness ==
    /\ rpc[2] = "rebuilt" /\ rebuilds = 1
    /\ rtrace[2] = <<"upgrade", "write", "f", "unlock", "rebuild">>
    /\ rpc[1] = "reading" /\ readers = {1} /\ writer = 0
    /\ layerVal = "Two"

\* ----- C27 -----
\* C27: a Dispatch is registered with the callsites by the step that
\* constructs it, and that step discards every cached Interest; a callsite is
\* cached as never only if every registered collector answers never for it:
\* with a registered collector that answers always or sometimes the callsite
\* is not cached as never (a reload is in effect once it has rebuilt).
C27_NeverMeansNobodyWants ==
    /\ [][/\ \A col \in Collectors :
                (strong[col] = 0 /\ strong'[col] = 1) => col \in registry'
          /\ registry' # registry =>
                /\ \E col \in Collectors : registry' = registry \cup {col}
                /\ \A c \in Callsites : interest'[c] = "unset"
      ]_vars
    /\ [](Quiescent =>
            \A c \in Callsites :
                interest[c] = "never" =>
                    \A col \in registry : Collector_register_callsite(col, c) = "never")

C27_Witness ==
    /\ registry = Collectors
    /\ Quiescent /\ layerVal = "Foo"
    /\ Collector_register_callsite("A", "bar") = "never"
    /\ Collector_register_callsite("B", "foo") = "never"
    /\ interest = [c \in Callsites |-> "always"]

\* ----- C28 -----
\* C28: format_trace goes on to dispatch only when the thread's current
\* dispatch (what get_default resolves) answers enabled for the record;
\* otherwise it returns without an event.  A record it dispatches gives
\* exactly one event, on the one of the five callsites of log_cs! whose level
\* is the level of the record; the callsites that exist stay the same five.
C28_BridgeChecksEnabled ==
    /\ [](logCallsites = LevelCallsites /\ Cardinality(logCallsites) = 5)
    /\ [](\A t \in Threads :
            lpc[t] = "event" => Dispatch_enabled(lrec[t].by, lrec[t].level))
    /\ [][/\ logCallsites' = logCallsites
          /\ \A t \in Threads :
                (lpc[t] = "idle" /\ lpc'[t] = "event") =>
                    /\ lrec'[t].by = Current(t)
                    /\ Dispatch_enabled(Current(t), lrec'[t].level)
                    /\ sent' = sent /\ skipped' = skipped
          /\ sent' # sent =>
                /\ sent' = sent + 1 /\ skipped' = skipped
                /\ \E t \in Threads :
                      /\ lpc[t] = "event" /\ lpc'[t] = "idle"
                      /\ lastEvent'.level = lrec[t].level
                      /\ lastEvent'.by = lrec[t].by
                /\ lastEvent'.cs \in logCallsites
                /\ CallsiteLevel(lastEvent'.cs) = Level_as_trace(lastEvent'.level)
          /\ skipped' # skipped =>
                /\ sent' = sent /\ lastEvent' = lastEvent /\ lpc' = lpc
                /\ \E t \in Threads, l \in LogLevels :
                      lpc[t] = "idle" /\ ~Dispatch_enabled(Current(t), l)
      ]_vars

C28_Witness ==
    /\ sent = 1 /\ skipped = 1
    /\ lastEvent = [cs |-> "WARN_CS", level |-> "Warn", by |-> "A"]
    /\ \A t \in Threads : lpc[t] = "idle"
    /\ get_global = "A"

\* ----- C29 -----
\* the get_default of thread t is on the slow path and finds the guard up
SlowPathEnters(t) ==
    /\ stack[t] # <<>>
    /\ IsGd(Top(t)) /\ Top(t).pc = "slow"
    /\ can_enter[t]
    /\ stack'[t] # stack[t]

\* C29: a get_default on the slow path that finds the guard up replaces a
\* stored none dispatch by what get_global returns at that moment and leaves
\* any other stored dispatch alone, and hands the stored dispatch to its
\* closure; so a thread whose cell holds the none dispatch resolves the global
\* default as soon as one is installed.
C29_LazyUpgrade ==
    [][\A t \in Threads :
          SlowPathEnters(t) =>
              /\ default'[t] = (IF IsNoSubscriber(default[t]) THEN get_global ELSE default[t])
              /\ Len(stack'[t]) = Len(stack[t])
              /\ stack'[t][Len(stack'[t])].pc = "f"
              /\ stack'[t][Len(stack'[t])].h = default'[t]
      ]_vars

\* ----- C30 -----
\* a get_default of thread t, called with the guard down, reaches its closure
\* in this step
GuardDownResolves(t) ==
    /\ stack[t] # <<>>
    /\ IsGd(Top(t)) /\ Top(t).pc \in {"fast", "slow"}
    /\ ~can_enter[t]
    /\ stack'[t] # stack[t]

\* a get_default of thread t that did not take the guard returns in this step
NestedReturns(t) ==
    /\ stack[t] # <<>>
    /\ IsGd(Top(t)) /\ Top(t).pc = "f" /\ ~Top(t).entered
    /\ ~can_enter[t]
    /\ stack'[t] = Pop(stack[t])

\* C30: a get_default called while the thread's guard is down hands the none
\* dispatch to its closure and leaves the thread's stored default alone, and
\* the guard is still down when it returns.
C30_GuardDownGetsNone ==
    [][\A t \in Threads :
          /\ GuardDownResolves(t) =>
                /\ Len(stack'[t]) = Len(stack[t])
                /\ stack'[t][Len(stack'[t])].pc = "f"
                /\ stack'[t][Len(stack'[t])].h = none
                /\ default'[t] = default[t]
                /\ ~can_enter'[t]
          /\ NestedReturns(t) => ~can_enter'[t]
      ]_vars

\* ----- C31 -----
\* thread t leaves its outermost entered get_default or get_current in this step
OutermostReturns(t) == Borrowed(t) /\ ~Borrowed(t)'

\* get_current found the guard down on thread t and is returning None
ReturnsNone(t) ==
    \E i \in DOMAIN stack[t] : stack[t][i].kind = "gc" /\ stack[t][i].pc = "none"

\* C31: can_enter of a thread is false only while the closure of an outermost
\* slow-path get_default or get_current call runs on that thread; when that
\* call returns, normally or by unwinding, can_enter is true again, so that
\* outside such a closure the slow path resolves the stored dispatch (the
\* global default for a stored none) and get_current does not return None.
C31_GuardDownOnlyInClosure ==
    /\ [](\A t \in Threads :
            /\ ~can_enter[t] => Borrowed(t)
            /\ ~Borrowed(t) => /\ Reentrant(t) = Upgraded(t)
                               /\ ~ReturnsNone(t))
    /\ [][\A t \in Threads : OutermostReturns(t) => can_enter'[t]]_vars

\* a get_current or slow-path get_default that replaced the stored none of
\* its thread by the global default has been left by a panic, and the guard
\* is up
C31_Witness ==
    \E t \in Enterers :
        /\ stack[t] = <<>> /\ unwinding[t]
        /\ default[t] = "A"
        /\ can_enter[t]

\* ----- C32 -----
\* the DefaultGuards that exist: those the user holds and those held by the
\* with_default calls whose body has started
LiveGuards ==
    Guards + SumOver([t \in Threads |->
                 Cardinality({i \in DOMAIN stack[t] :
                     IsWd(stack[t][i]) /\ stack[t][i].pc = "body"})], Threads)

\* State::set_default has replaced the cell of some thread and has not yet
\* added to SCOPED_COUNT
SetDefaultInProgress ==
    \E t \in Threads : \E i \in DOMAIN stack[t] :
        stack[t][i].kind \in {"wd", "sd"} /\ stack[t][i].pc = "count"

\* no thread holds a DefaultGuard
NoGuardLive ==
    \A t \in Threads :
        /\ guards[t] = <<>>
        /\ \A i \in DOMAIN stack[t] : IsWd(stack[t][i]) => stack[t][i].pc = "count"

\* C32: whenever no set_default is between its replace and its fetch_add (a
\* DefaultGuard drop is one step), SCOPED_COUNT is the number of live
\* DefaultGuards of all threads; it is never negative, and it is zero exactly
\* when no guard is live.
C32_CountIsLiveGuards ==
    /\ SCOPED_COUNT >= 0
    /\ SCOPED_COUNT <= LiveGuards
    /\ ~SetDefaultInProgress =>
          /\ SCOPED_COUNT = LiveGuards
          /\ SCOPED_COUNT = 0 <=> NoGuardLive

\* two threads hold a guard each, both of the same collector
C32_Witness ==
    /\ ~SetDefaultInProgress
    /\ guards[1] # <<>> /\ guards[2] # <<>>
    /\ SCOPED_COUNT = 2
    /\ \E col \in Collectors : strong[col] > handles[col] + 1

\* ----- C33 -----
\* C33: whenever SCOPED_COUNT is zero and no set_default is in progress, the
\* stored default of every thread is the none sentinel or the global default,
\* so that the fast path of get_default and the slow path agree.
C33_FastPathAgrees ==
    (SCOPED_COUNT = 0 /\ ~SetDefaultInProgress) =>
        \A t \in Threads : default[t] \in {none, get_global}

\* ----- C34 -----
\* C34: once every DefaultGuard created on a thread has been released, in
\* whatever order, the thread's stored default is what it was before the
\* first of those set_default calls (the none sentinel of a fresh thread: no
\* get_default runs here), and the cell keeps no collector alive.
C34_AllReleasedRestores ==
    \A t \in Threads :
        (guards[t] = <<>> /\ stack[t] = <<>>) => default[t] = none

\* ----- C35 -----
\* the get_default frame i of thread t was called from the body of
\* with_default(Dispatch::none(), ..) and has resolved its dispatch
InNoneScope(t, i) ==
    /\ i > 1
    /\ IsGd(stack[t][i]) /\ stack[t][i].pc = "f"
    /\ IsWd(stack[t][i - 1]) /\ IsNoSubscriber(stack[t][i - 1].h)

\* C35: a scoped default equal to the none sentinel shadows the global
\* default: get_default called in the body of with_default(Dispatch::none(), ..)
\* resolves the none sentinel even when a global default is installed.
C35_NoneShadowsGlobal ==
    \A t \in Threads : \A i \in DOMAIN stack[t] :
        InNoneScope(t, i) => IsNoSubscriber(stack[t][i].h)

\* ----- C39 -----
\* thread t calls with_default in this step, from inside the closure of a
\* slow-path get_default or of get_current
SetsDefaultInClosure(t, h) == Borrowed(t) /\ WithDefaultCall(t, h)

\* C39: set_default or with_default called on a thread that is inside the
\* closure of a slow-path get_default or of get_current completes without a
\* panic, the cell not being borrowed when it is replaced, and leaves the
\* re-entrancy guard down until the outer closure finishes.
C39_SetDefaultInClosure ==
    [][\A t \in Threads : \A h \in WdHandles :
          SetsDefaultInClosure(t, h) =>
              /\ stack'[t] # stack[t] /\ ~unwinding'[t]
              /\ can_enter'[t] = can_enter[t]]_vars

\* ----- C36 -----
\* thread t assigns GLOBAL_DISPATCH in this step
WritesSlot(t) ==
    /\ stack[t] # <<>>
    /\ IsSgd(Top(t)) /\ Top(t).pc = "write"
    /\ stack'[t] # stack[t]

\* get_global on thread t is past its load of GLOBAL_INIT and about to read
\* GLOBAL_DISPATCH
AboutToRead(t) == stack[t] # <<>> /\ Top(t).kind = "gg" /\ Top(t).pc = "read"

\* get_global on thread t has read GLOBAL_DISPATCH
HasRead(t) == stack[t] # <<>> /\ Top(t).kind = "gg" /\ Top(t).pc = "got"

\* C36: GLOBAL_DISPATCH is assigned at most once, by the set_global_default
\* call that won the compare-and-set and while GLOBAL_INIT is INITIALIZING; it
\* is read only by a get_global that saw GLOBAL_INIT = INITIALIZED; no read
\* overlaps the assignment and every read yields the installed dispatch.
C36_SlotWrittenOnceThenRead ==
    /\ [](\A t \in Threads :
            /\ AboutToRead(t) => GLOBAL_INIT = INITIALIZED /\ ~WriteInProgress
            /\ HasRead(t) => /\ Top(t).h = GLOBAL_DISPATCH
                             /\ Top(t).h \in SgdHandles
                             /\ sgdOk + Winners = 1)
    /\ [][/\ GLOBAL_DISPATCH' # GLOBAL_DISPATCH => \E t \in Threads : WritesSlot(t)
          /\ \A t \in Threads :
                WritesSlot(t) => /\ GLOBAL_INIT = INITIALIZING
                                 /\ GLOBAL_DISPATCH = none
                                 /\ GLOBAL_DISPATCH' = Top(t).h
                                 /\ Winners = 1 /\ sgdOk = 0]_vars

\* a get_global has read the slot while a losing set_global_default had
\* already returned its error
C36_Witness ==
    \E t \in Threads :
        /\ HasRead(t)
        /\ Top(t).h \in SgdHandles
        /\ sgdErr > 0

\* ----- C37 -----
\* C37: once a set_global_default call has returned SetGlobalDefaultError,
\* get_global (and with it the fast path of get_default) yields the dispatch
\* installed by the successful call, not the none sentinel.
C37_ErrorMeansInstalled ==
    sgdErr > 0 => /\ get_global \in SgdHandles
                  /\ \A t \in Threads : HasRead(t) => Top(t).h = get_global

\* ----- C38 -----
\* C38: in every state in which get_global returns the installed global
\* default (GLOBAL_INIT = INITIALIZED), has_been_set() returns true.
C38_InstalledMeansExists ==
    GLOBAL_INIT = INITIALIZED => has_been_set

\* ----- C40 -----
\* thread t is inside Handle::modify or Handle::reload, past the upgrade
InModify(t) == rpc[t] \in {"upgraded", "locked", "applied", "unlocked", "rebuilt"}

TypeOK ==
    /\ GLOBAL_INIT \in 0..2
    /\ GLOBAL_DISPATCH \in Dispatches
    /\ SCOPED_COUNT \in 0..(NumThreads * MaxDepth)
====
